---- MODULE Spec2Model ----
(***************************************************************************)
(* Abalone: the rules engine (board.py: Board) and the search engine       *)
(* (ai_engine.py: AbaloneAI).                                              *)
(*                                                                         *)
(* A coordinate is the axial pair <<q, r>>.  A grid is a function from the *)
(* occupied coordinates to the colour "B" or "W" (the dict Board.grid).    *)
(* A board object is the record [grid, order, black_score, white_score,    *)
(* selected]; order lists the occupied coordinates in the order the dict   *)
(* iterates them (insertion order).                                        *)
(* A move is the dict validate_move returns, [type, dir, marbles,          *)
(* push_opponent]; None is the record NoMove.                              *)
(***************************************************************************)
EXTENDS Integers, Sequences, FiniteSets, TLC

\* ------------------------------------------------------------------ bounds
\* number of apply_move calls explored from the standard layout
MaxPlies == 2
\* marbles placed on a synthetic position
MaxSynMarbles == 6
\* marbles placed on a synthetic position that uses the cell beside the row
MaxSideMarbles == 4
\* iterative deepening is followed up to this depth; the clock has run out when
\* the next depth would start
MaxDepth == 2
\* the clock passes the time limit when nodes_explored reaches a multiple of
\* DeadlineStep, up to MaxDeadlineSteps of them, or not within MaxDepth at all
DeadlineStep == 10

MaxDeadlineSteps == 10
\* random.shuffle is followed through the rotations by 0..ShuffleRotations-1
\* places, and the reversal
ShuffleRotations == 1
\* marbles on the row positions on which minimax_ab and minimax_pure are compared
MaxEqMarbles == 3

\* the depths the two searches are compared at: 0..MaxEqDepth
MaxEqDepth == 1

\* the runs of one get_all_legal_moves call on one board that are compared
MaxRuns == 2

\* update_history calls made on one engine
MaxHistoryCalls == 8

\* number of moves over the edge explored from the standard layout
MaxEdgePlies == 3

\* moves the driver plays for the engine between its get_best_move calls
MaxEnginePlies == 1

\* the minimax_ab calls made on one engine and position
MaxAbCalls == 2

\* the deepest minimax_ab call made on its own
MaxAbDepth == 2

\* the quiescence_search calls made on one engine and position
MaxQsCalls == 2

\* the minimax_ab calls made on one engine and position against the clock
MaxTimedCalls == 1

\* how many nodes before a time check the calls against the clock begin
MaxTimedLead == 5

\* the handle_click calls made on one board
MaxClicks == 4

\* the minimax_ab calls made on one engine around a set_config call
MaxConfigCalls == 2

\* how far below and above the static evaluation a search window ends
WindowMargin == 30

\* ------------------------------------------------------------- hex geometry
DIRECTIONS == << <<1, 0>>, <<1, -1>>, <<0, -1>>, <<-1, 0>>, <<-1, 1>>, <<0, 1>> >>

DirSet == {DIRECTIONS[i] : i \in 1..6}

Abs(x) == IF x < 0 THEN -x ELSE x

Max2(a, b) == IF a >= b THEN a ELSE b

Min2(a, b) == IF a <= b THEN a ELSE b

Plus(c, d) == <<c[1] + d[1], c[2] + d[2]>>

Minus(c, d) == <<c[1] - d[1], c[2] - d[2]>>

Neg(d) == <<-d[1], -d[2]>>

\* the bounds test of apply_move: max(|q|, |r|, |-q-r|) <= 4
OnBoard(c) == Max2(Max2(Abs(c[1]), Abs(c[2])), Abs(-c[1] - c[2])) <= 4

Cells == {c \in (-4..4) \X (-4..4) : OnBoard(c)}

\* Python's tuple order on coordinates, and sorted() on a list of them
TupleLess(a, b) == a[1] < b[1] \/ (a[1] = b[1] /\ a[2] < b[2])

RECURSIVE InsertSorted(_, _)
InsertSorted(x, s) ==
    IF s = <<>> THEN <<x>>
    ELSE IF TupleLess(x, Head(s)) THEN <<x>> \o s
    ELSE <<Head(s)>> \o InsertSorted(x, Tail(s))

RECURSIVE sorted(_)
sorted(s) == IF s = <<>> THEN <<>> ELSE InsertSorted(Head(s), sorted(Tail(s)))

SeqSet(s) == {s[i] : i \in 1..Len(s)}

\* ------------------------------------------------------------------- Board
NoMove == [type |-> "none"]

Opp(color) == IF color = "W" THEN "B" ELSE "W"

\* Board.__init__
NewBoard ==
    [grid |-> <<>>, order |-> <<>>, black_score |-> 0, white_score |-> 0, selected |-> <<>>]

\* self.grid[c] = Piece(color): the value is set, a new key goes last
SetCell(g, c, color) == [x \in (DOMAIN g) \cup {c} |-> IF x = c THEN color ELSE g[x]]

\* Board.add_piece
add_piece(b, c, color) ==
    [b EXCEPT !.grid = SetCell(b.grid, c, color),
              !.order = IF c \in DOMAIN b.grid THEN @ ELSE Append(@, c)]

\* del self.grid[c] for every c in cs
RemoveCells(g, cs) == [x \in (DOMAIN g) \ cs |-> g[x]]

\* the add_piece calls of init_board, in order
WhiteStart ==
    ([i \in 1..5 |-> <<i - 1, -4>>] \o [i \in 1..6 |-> <<i - 2, -3>>]) \o [i \in 1..3 |-> <<i - 1, -2>>]

BlackStart ==
    ([i \in 1..5 |-> <<i - 5, 4>>] \o [i \in 1..6 |-> <<i - 5, 3>>]) \o [i \in 1..3 |-> <<i - 3, 2>>]

\* add_piece for every coordinate of cells, in order
RECURSIVE AddPieces(_, _, _)
AddPieces(b, cells, color) ==
    IF cells = <<>> THEN b ELSE AddPieces(add_piece(b, Head(cells), color), Tail(cells), color)

\* Board.init_board: the grid is replaced, the scores and the selection stay
init_board(b) ==
    AddPieces(AddPieces([b EXCEPT !.grid = <<>>, !.order = <<>>], WhiteStart, "W"),
              BlackStart, "B")

\* validate_move, step 1: the first selected marble (in input order) that has
\* the target as a neighbour; 0 when there is none
RECURSIVE FirstNeighbor(_, _, _)
FirstNeighbor(selected, target, i) ==
    IF i > Len(selected) THEN 0
    ELSE IF Minus(target, selected[i]) \in DirSet THEN i
    ELSE FirstNeighbor(selected, target, i + 1)

\* IsLine with the loop over the later deltas left out
IsLine_FirstPairOnly(selected) ==
    LET s == sorted(selected)
        d1 == Minus(s[2], s[1])
    IN  d1 \in DirSet

\* validate_move, step 2: the sorted selection steps by one constant direction
IsLine(selected) ==
    LET s == sorted(selected)
        d1 == Minus(s[2], s[1])
    IN  /\ d1 \in DirSet
        /\ \A i \in 3..Len(s) : Minus(s[i], s[i - 1]) = d1

LineDir(selected) == LET s == sorted(selected) IN Minus(s[2], s[1])

\* the selection taken as the chain, in input order
BuildChain_InputOrder(selected, chain, d, n) == selected

\* the chain behind the head, against the move direction; <<>> when a
\* predecessor is not selected
RECURSIVE BuildChain(_, _, _, _)
BuildChain(selected, chain, d, n) ==
    IF n = 0 THEN chain
    ELSE LET prev == Minus(chain[Len(chain)], d)
         IN  IF prev \in SeqSet(selected)
             THEN BuildChain(selected, Append(chain, prev), d, n - 1)
             ELSE <<>>

\* the contiguous chain of marbles not of colour own, from curr in direction d
RECURSIVE TraceOpponent(_, _, _, _)
TraceOpponent(g, curr, d, own) ==
    IF curr \in DOMAIN g /\ g[curr] # own
    THEN <<curr>> \o TraceOpponent(g, Plus(curr, d), d, own)
    ELSE <<>>

\* InlineMove that turns down a target cell off the valid board
InlineMove_TargetOnBoard(g, selected, target, d, head) ==
    LET chain == BuildChain(selected, <<head>>, d, Len(selected) - 1)
    IN  IF chain = <<>> THEN NoMove
        ELSE IF ~OnBoard(target) THEN NoMove
        ELSE IF target \notin DOMAIN g
        THEN [type |-> "inline", dir |-> d, marbles |-> chain, push_opponent |-> <<>>]
        ELSE IF g[target] = g[head] THEN NoMove
        ELSE LET opponent_chain == TraceOpponent(g, target, d, g[head])
                 behind_last == IF opponent_chain = <<>> THEN target
                                ELSE Plus(opponent_chain[Len(opponent_chain)], d)
             IN  IF Len(chain) <= Len(opponent_chain) THEN NoMove
                 ELSE IF Len(chain) > 3 THEN NoMove
                 ELSE IF behind_last \in DOMAIN g THEN NoMove
                 ELSE [type |-> "inline", dir |-> d, marbles |-> chain,
                       push_opponent |-> opponent_chain]

\* InlineMove with the strength test len(chain) < len(opponent_chain)
InlineMove_EqualStrength(g, selected, target, d, head) ==
    LET chain == BuildChain(selected, <<head>>, d, Len(selected) - 1)
    IN  IF chain = <<>> THEN NoMove
        ELSE IF target \notin DOMAIN g
        THEN [type |-> "inline", dir |-> d, marbles |-> chain, push_opponent |-> <<>>]
        ELSE IF g[target] = g[head] THEN NoMove
        ELSE LET opponent_chain == TraceOpponent(g, target, d, g[head])
                 behind_last == IF opponent_chain = <<>> THEN target
                                ELSE Plus(opponent_chain[Len(opponent_chain)], d)
             IN  IF Len(chain) < Len(opponent_chain) THEN NoMove
                 ELSE IF Len(chain) > 3 THEN NoMove
                 ELSE IF behind_last \in DOMAIN g THEN NoMove
                 ELSE [type |-> "inline", dir |-> d, marbles |-> chain,
                       push_opponent |-> opponent_chain]

\* validate_move, the in-line branch
InlineMove(g, selected, target, d, head) ==
    LET chain == BuildChain(selected, <<head>>, d, Len(selected) - 1)
    IN  IF chain = <<>> THEN NoMove
        ELSE IF target \notin DOMAIN g
        THEN [type |-> "inline", dir |-> d, marbles |-> chain, push_opponent |-> <<>>]
        ELSE IF g[target] = g[head] THEN NoMove
        ELSE LET opponent_chain == TraceOpponent(g, target, d, g[head])
                 behind_last == IF opponent_chain = <<>> THEN target
                                ELSE Plus(opponent_chain[Len(opponent_chain)], d)
             IN  IF Len(chain) <= Len(opponent_chain) THEN NoMove
                 ELSE IF Len(chain) > 3 THEN NoMove
                 ELSE IF behind_last \in DOMAIN g THEN NoMove
                 ELSE [type |-> "inline", dir |-> d, marbles |-> chain,
                       push_opponent |-> opponent_chain]

\* the broadside branch stopped only by a marble of the moving colour
BroadsideMove_OwnBlocksOnly(g, selected, d) ==
    IF \E i \in 1..Len(selected) :
          Plus(selected[i], d) \in DOMAIN g /\ g[Plus(selected[i], d)] = g[selected[1]]
    THEN NoMove
    ELSE [type |-> "broadside", dir |-> d, marbles |-> selected, push_opponent |-> <<>>]

\* validate_move, the broadside branch
BroadsideMove(g, selected, d) ==
    IF \E i \in 1..Len(selected) : Plus(selected[i], d) \in DOMAIN g THEN NoMove
    ELSE [type |-> "broadside", dir |-> d, marbles |-> selected, push_opponent |-> <<>>]

\* Board.validate_move(selected, target_q, target_r) on grid g
validate_move(g, selected, target) ==
    IF selected = <<>> THEN NoMove
    ELSE LET i == FirstNeighbor(selected, target, 1)
         IN  IF i = 0 THEN NoMove
             ELSE LET d == Minus(target, selected[i])
                      head == selected[i]
                  IN  IF Len(selected) > 1 /\ ~IsLine(selected) THEN NoMove
                      ELSE IF /\ Len(selected) > 1
                              /\ d # LineDir(selected)
                              /\ d # Neg(LineDir(selected))
                      THEN BroadsideMove(g, selected, d)
                      ELSE InlineMove(g, selected, target, d, head)

\* the marbles apply_move relocates, own first, then pushed
Movers(m) == m.marbles \o m.push_opponent

\* the dict order after apply_move: the movers' keys are deleted, then the
\* marbles that stay on the board are inserted in the order they were collected
MovedOrder(order, m) ==
    LET moved == SeqSet(Movers(m))
        stay(c) == c \notin moved
        lands(c) == OnBoard(Plus(c, m.dir))
        fresh(c) == lands(c) /\ (Plus(c, m.dir) \in moved \/ Plus(c, m.dir) \notin SeqSet(order))
        landed == SelectSeq(Movers(m), fresh)
    IN  SelectSeq(order, stay) \o [i \in 1..Len(landed) |-> Plus(landed[i], m.dir)]

\* the number of marbles of the given colour that apply_move ejects
Ejected(g, m, color) ==
    Cardinality({c \in SeqSet(Movers(m)) : g[c] = color /\ ~OnBoard(Plus(c, m.dir))})

\* apply_move that scores only the pushed marbles that leave the board
apply_move_PushedOnly(b, m) ==
    LET g == b.grid
        moved == SeqSet(Movers(m))
        rest == RemoveCells(g, moved)
        placed == {c \in moved : OnBoard(Plus(c, m.dir))}
        dest == {Plus(c, m.dir) : c \in placed}
        newgrid == [x \in (DOMAIN rest) \cup dest |->
                      IF x \in dest THEN g[Minus(x, m.dir)] ELSE rest[x]]
        neworder == MovedOrder(b.order, m)
        out(color) == Cardinality({c \in SeqSet(m.push_opponent) :
                                     g[c] = color /\ ~OnBoard(Plus(c, m.dir))})
    IN  [b EXCEPT !.grid = newgrid,
                  !.order = neworder,
                  !.white_score = @ + out("B"),
                  !.black_score = @ + out("W")]

\* apply_move that credits an ejected marble to its own colour's score
apply_move_OwnCredit(b, m) ==
    LET g == b.grid
        moved == SeqSet(Movers(m))
        rest == RemoveCells(g, moved)
        placed == {c \in moved : OnBoard(Plus(c, m.dir))}
        dest == {Plus(c, m.dir) : c \in placed}
        newgrid == [x \in (DOMAIN rest) \cup dest |->
                      IF x \in dest THEN g[Minus(x, m.dir)] ELSE rest[x]]
        neworder == MovedOrder(b.order, m)
    IN  [b EXCEPT !.grid = newgrid,
                  !.order = neworder,
                  !.white_score = @ + Ejected(g, m, "W"),
                  !.black_score = @ + Ejected(g, m, "B")]

\* apply_move that places every marble moved, on the valid board or not
apply_move_PlaceAll(b, m) ==
    LET g == b.grid
        moved == SeqSet(Movers(m))
        rest == RemoveCells(g, moved)
        dest == {Plus(c, m.dir) : c \in moved}
        newgrid == [x \in (DOMAIN rest) \cup dest |->
                      IF x \in dest THEN g[Minus(x, m.dir)] ELSE rest[x]]
        neworder == MovedOrder(b.order, m)
    IN  [b EXCEPT !.grid = newgrid,
                  !.order = neworder,
                  !.white_score = @ + Ejected(g, m, "B"),
                  !.black_score = @ + Ejected(g, m, "W")]

\* Board.apply_move(move_data) on board object b
apply_move(b, m) ==
    LET g == b.grid
        moved == SeqSet(Movers(m))
        rest == RemoveCells(g, moved)
        placed == {c \in moved : OnBoard(Plus(c, m.dir))}
        dest == {Plus(c, m.dir) : c \in placed}
        newgrid == [x \in (DOMAIN rest) \cup dest |->
                      IF x \in dest THEN g[Minus(x, m.dir)] ELSE rest[x]]
        neworder == MovedOrder(b.order, m)
    IN  [b EXCEPT !.grid = newgrid,
                  !.order = neworder,
                  !.white_score = @ + Ejected(g, m, "B"),
                  !.black_score = @ + Ejected(g, m, "W")]

\* list.remove(x): the list without the first occurrence of x
ListRemove(s, x) ==
    LET i == CHOOSE k \in 1..Len(s) : s[k] = x /\ \A j \in 1..(k - 1) : s[j] # x
    IN  SubSeq(s, 1, i - 1) \o SubSeq(s, i + 1, Len(s))

\* handle_click that keeps the selection after a rejected move
handle_click_KeepOnInvalid(b, c, current_turn_color) ==
    IF c \in DOMAIN b.grid /\ b.grid[c] = current_turn_color
    THEN [board |-> [b EXCEPT !.selected =
                        IF c \in SeqSet(@) THEN ListRemove(@, c)
                        ELSE Append(IF Len(@) >= 3 THEN <<>> ELSE @, c)],
          returned |-> FALSE, move_data |-> NoMove]
    ELSE IF b.selected # <<>>
    THEN LET move_data == validate_move(b.grid, b.selected, c)
         IN  IF move_data # NoMove
             THEN [board |-> [apply_move(b, move_data) EXCEPT !.selected = <<>>],
                   returned |-> TRUE, move_data |-> move_data]
             ELSE [board |-> b, returned |-> FALSE, move_data |-> NoMove]
    ELSE [board |-> b, returned |-> FALSE, move_data |-> NoMove]

\* handle_click without its `if len(self.selected) >= 3`
handle_click_NoLimit(b, c, current_turn_color) ==
    IF c \in DOMAIN b.grid /\ b.grid[c] = current_turn_color
    THEN [board |-> [b EXCEPT !.selected =
                        IF c \in SeqSet(@) THEN ListRemove(@, c) ELSE Append(@, c)],
          returned |-> FALSE, move_data |-> NoMove]
    ELSE IF b.selected # <<>>
    THEN LET move_data == validate_move(b.grid, b.selected, c)
         IN  IF move_data # NoMove
             THEN [board |-> [apply_move(b, move_data) EXCEPT !.selected = <<>>],
                   returned |-> TRUE, move_data |-> move_data]
             ELSE [board |-> [b EXCEPT !.selected = <<>>], returned |-> FALSE,
                   move_data |-> NoMove]
    ELSE [board |-> b, returned |-> FALSE, move_data |-> NoMove]

\* Board.handle_click(q, r, current_turn_color) on board object b: the board
\* after the call, the value returned, and the move applied (NoMove if none)
handle_click(b, c, current_turn_color) ==
    IF c \in DOMAIN b.grid /\ b.grid[c] = current_turn_color
    THEN [board |-> [b EXCEPT !.selected =
                        IF c \in SeqSet(@) THEN ListRemove(@, c)
                        ELSE Append(IF Len(@) >= 3 THEN <<>> ELSE @, c)],
          returned |-> FALSE, move_data |-> NoMove]
    ELSE IF b.selected # <<>>
    THEN LET move_data == validate_move(b.grid, b.selected, c)
         IN  IF move_data # NoMove
             THEN [board |-> [apply_move(b, move_data) EXCEPT !.selected = <<>>],
                   returned |-> TRUE, move_data |-> move_data]
             ELSE [board |-> [b EXCEPT !.selected = <<>>], returned |-> FALSE,
                   move_data |-> NoMove]
    ELSE [board |-> b, returned |-> FALSE, move_data |-> NoMove]

\* the winner test with > 6 in place of >= 6
Winner_AboveSix(b) ==
    IF b.white_score > 6 THEN "White"
    ELSE IF b.black_score > 6 THEN "Black"
    ELSE "None"

\* the value apply_move returns
Winner(b) ==
    IF b.white_score >= 6 THEN "White"
    ELSE IF b.black_score >= 6 THEN "Black"
    ELSE "None"

\* --------------------------------------------------------------- AbaloneAI
\* math.inf and -math.inf: beyond every score evaluate can return
PosInf == 1000000000

NegInf == -1000000000

\* minimax_ab and minimax_pure read the clock when nodes_explored % 100 == 0
CheckEvery == 100

\* set_config: the weights [Material, Push, Cohesion, Center, Danger] of an algorithm
WeightsOf(algorithm_type) ==
    IF algorithm_type = "Greedy" THEN <<10000, 200, 10, 3, -250>>
    ELSE IF algorithm_type \in {"ID Minimax", "IDS"} THEN <<10000, 100, 20, 50, -50>>
    ELSE IF algorithm_type = "Minimax+ABP" THEN <<10000, 100, 20, 50, -50>>
    ELSE <<10000, 100, 10, 20, -100>>

\* _precompute_center_scores and center_scores.get(pos, 0)
CenterScore(c) ==
    IF OnBoard(c) THEN 5 - ((Abs(c[1]) + Abs(c[2]) + Abs(-c[1] - c[2])) \div 2) ELSE 0

RECURSIVE SumOver(_, _)
SumOver(f, S) ==
    IF S = {} THEN 0
    ELSE LET x == CHOOSE y \in S : TRUE IN f[x] + SumOver(f, S \ {x})

\* evaluate(board, player_color, move, move_maker_color)[0]; the danger
\* penalty is counted in halves (2 = 4 halves, 0.5 = 1 half), every w_danger
\* is even
evaluate(b, player_color, move, move_maker_color, weights) ==
    LET g == b.grid
        mine == {c \in DOMAIN g : g[c] = player_color}
        op_pieces == Cardinality(DOMAIN g) - Cardinality(mine)
        neighbors == [c \in mine |->
                        Cardinality({d \in DirSet : Plus(c, d) \in DOMAIN g
                                                    /\ g[Plus(c, d)] = player_color})]
        center == [c \in mine |-> CenterScore(c)]
        danger_halves == [c \in mine |->
                            IF CenterScore(c) = 1
                            THEN (IF neighbors[c] = 0 THEN 4 ELSE 1)
                            ELSE 0]
        base_agg == IF move # NoMove THEN Len(move.push_opponent) * 2 ELSE 0
        aggression_score == IF move_maker_color = player_color THEN base_agg ELSE -base_agg
    IN  (Cardinality(mine) - op_pieces) * weights[1]
        + aggression_score * weights[2]
        + SumOver(neighbors, mine) * weights[3]
        + SumOver(center, mine) * weights[4]
        + SumOver(danger_halves, mine) * (weights[5] \div 2)

\* _get_board_hash: the sorted (coordinate, colour) pairs, i.e. the grid
board_hash(b) == b.grid

\* _get_state_key: the Zobrist hash of the occupied (cell, colour) pairs and
\* the side bit; 64-bit random keys are taken to be collision free
state_key(b, is_max) == <<b.grid, is_max>>

\* _is_game_over
is_game_over(b) == b.white_score >= 6 \/ b.black_score >= 6

\* ------------------------------------------------------- move generation
half_directions == << <<1, 0>>, <<0, 1>>, <<1, -1>> >>

IsOwn(b, c, color) == c \in DOMAIN b.grid /\ b.grid[c] = color

\* the broadside targets of a group seeded at p along d
BroadsideTargets(p, d) ==
    LET across(e) == e # d /\ e # Neg(d)
        dirs == SelectSeq(DIRECTIONS, across)
    IN  [i \in 1..Len(dirs) |-> Plus(p, dirs[i])]

\* GroupCalls with the in-line call behind the seed piece left out
GroupCalls_ForwardOnly(group, p, last, d) ==
    LET bt == BroadsideTargets(p, d)
    IN  << <<group, Plus(last, d)>> >> \o [i \in 1..Len(bt) |-> <<group, bt[i]>>]

\* the try_add_move calls for one group: both in-line targets, then broadside
GroupCalls(group, p, last, d) ==
    LET bt == BroadsideTargets(p, d)
    IN  << <<group, Minus(p, d)>>, <<group, Plus(last, d)>> >>
        \o [i \in 1..Len(bt) |-> <<group, bt[i]>>]

\* the try_add_move calls seeded at piece p along half direction d
LineCalls(b, color, p, d) ==
    LET n1 == Plus(p, d)
        n2 == Plus(n1, d)
    IN  IF ~IsOwn(b, n1, color) THEN <<>>
        ELSE GroupCalls(<<p, n1>>, p, n1, d)
             \o (IF IsOwn(b, n2, color) THEN GroupCalls(<<p, n1, n2>>, p, n2, d) ELSE <<>>)

\* the try_add_move calls of the line moves loop: a piece and a half
\* direction make at most 12 calls, slot k is call ((k - 1) % 12) + 1 of
\* piece ((k - 1) \div 36) + 1 along half direction (((k - 1) \div 12) % 3) + 1,
\* and the slots of the calls that are made are kept, in order
AllLineCalls(b, color, pieces) ==
    LET made(c) == c[1] # <<>>
    IN  SelectSeq([k \in 1..(36 * Len(pieces)) |->
                     LET p == pieces[((k - 1) \div 36) + 1]
                         lc == LineCalls(b, color, p,
                                         half_directions[(((k - 1) \div 12) % 3) + 1])
                         j == ((k - 1) % 12) + 1
                     IN  IF j <= Len(lc) THEN lc[j] ELSE <<<<>>, p>>],
                  made)

\* TryCalls with `pieces` holding the marbles of both colours
TryCalls_AnyColour(b, color) ==
    LET pieces == b.order
    IN  [k \in 1..(6 * Len(pieces)) |->
            <<<<pieces[((k - 1) \div 6) + 1]>>,
              Plus(pieces[((k - 1) \div 6) + 1], DIRECTIONS[((k - 1) % 6) + 1])>>]
        \o AllLineCalls(b, color, pieces)

\* every try_add_move(selected, target) call of get_all_legal_moves, in order
TryCalls(b, color) ==
    LET own(c) == b.grid[c] = color
        pieces == SelectSeq(b.order, own)
    IN  [k \in 1..(6 * Len(pieces)) |->
            <<<<pieces[((k - 1) \div 6) + 1]>>,
              Plus(pieces[((k - 1) \div 6) + 1], DIRECTIONS[((k - 1) % 6) + 1])>>]
        \o AllLineCalls(b, color, pieces)

\* the signature of a move: (tuple(sorted(marbles)), dir)
Sig(m) == <<sorted(m.marbles), m.dir>>

\* the board the engine is written against returns (move_data, reason) from
\* validate_move; the rules are those of Board.validate_move
board_validate_move(b, selected, target) ==
    <<validate_move(b.grid, selected, target), "reason">>

\* the validated moves of the try_add_move calls, in call order
Validated(b, calls) ==
    LET results == [k \in 1..Len(calls) |->
                      board_validate_move(b, calls[k][1], calls[k][2])[1]]
        valid(m) == m # NoMove
    IN  SelectSeq(results, valid)

\* try_add_move appends a validated move whose signature no earlier call has
\* put into seen_moves; a signature is in seen_moves exactly when an earlier
\* validated move has it
AddUnseen(found) ==
    LET sigs == [k \in 1..Len(found) |-> Sig(found[k])]
        indexed == [k \in 1..Len(found) |-> <<k, found[k]>>]
        unseen(x) == \A j \in 1..(x[1] - 1) : sigs[j] # sigs[x[1]]
        added == SelectSeq(indexed, unseen)
    IN  [k \in 1..Len(added) |-> added[k][2]]

\* get_all_legal_moves that seeds the lines along all six directions and
\* appends every validated move, seen or not
get_all_legal_moves_SixDirsNoSeen(b, color) ==
    LET own(c) == b.grid[c] = color
        pieces == SelectSeq(b.order, own)
        lines == [k \in 1..(6 * Len(pieces)) |->
                    LineCalls(b, color, pieces[((k - 1) \div 6) + 1],
                              DIRECTIONS[((k - 1) % 6) + 1])]
        flat[k \in 0..Len(lines)] == IF k = 0 THEN <<>> ELSE flat[k - 1] \o lines[k]
    IN  Validated(b, flat[Len(lines)])

\* get_all_legal_moves(board, color)
get_all_legal_moves(b, color) == AddUnseen(Validated(b, TryCalls(b, color)))

\* list.sort(key=priority, reverse=True) on <<priority, move>> pairs: stable,
\* highest priority first; before[i] counts the pairs that come before pair i
SortByPriority(s) ==
    LET before == [i \in 1..Len(s) |->
                     Cardinality({j \in 1..Len(s) :
                                    \/ s[j][1] > s[i][1]
                                    \/ s[j][1] = s[i][1] /\ j < i})]
    IN  [p \in 1..Len(s) |-> s[CHOOSE i \in 1..Len(s) : before[i] = p - 1]]

\* the moves of a sorted list of <<priority, move>> pairs
PriorityOrder(keyed) ==
    LET ordered == SortByPriority(keyed)
    IN  [i \in 1..Len(ordered) |-> ordered[i][2]]

\* priority(m) without the length of the push list
OrderKeys_PushFlag(moves) ==
    [i \in 1..Len(moves) |-> <<IF moves[i].push_opponent # <<>> THEN 10 ELSE 0, moves[i]>>]

\* priority(m) of get_ordered_moves: 10 + len(push_opponent) for a push, else 0
OrderKeys(moves) ==
    [i \in 1..Len(moves) |->
        <<IF moves[i].push_opponent # <<>>
          THEN 10 + Len(moves[i].push_opponent) ELSE 0, moves[i]>>]

\* get_ordered_moves(board, color)
get_ordered_moves(b, color) == PriorityOrder(OrderKeys(get_all_legal_moves(b, color)))

\* the sort key of quiescence_search: len(push_opponent)
NoisyKeys(moves) == [i \in 1..Len(moves) |-> <<Len(moves[i].push_opponent), moves[i]>>]

\* get_noisy_moves without its `if move['push_opponent']`
NoisyMoves_All(b, color) == PriorityOrder(NoisyKeys(get_all_legal_moves(b, color)))

\* get_noisy_moves(board, color), sorted as quiescence_search sorts them
NoisyMoves(b, color) ==
    PriorityOrder(NoisyKeys(SelectSeq(get_all_legal_moves(b, color),
                                      LAMBDA m : m.push_opponent # <<>>)))

\* ------------------------------------------------------------------ search
\* Board.clone(): a new board object with the same contents (deep copy)
BoardClone(b) == b

\* _clone_board(board): the object returned, and whether it is the very
\* object passed in (a write through an alias reaches the caller's board)
_clone_board_Alias(b) == [obj |-> b, alias |-> TRUE]

_clone_board(b) == [obj |-> BoardClone(b), alias |-> FALSE]

\* sim_board = self._clone_board(board); sim_board.apply_move(move)
Simulate(b, move) == apply_move(_clone_board(b).obj, move)

\* The engine state a search reads and writes is threaded through the
\* recursion as st = [nodes, tt, cutoffs, cache_hits, aborted]: the metrics
\* nodes_explored, cutoffs and cache_hits, the transposition table, and whether
\* some node has returned early on the clock.  cfg = [my_color, weights,
\* deadline]: the clock is past the time limit at every check made when
\* nodes_explored >= deadline.
NoDeadline == PosInf

TimeUp(st, cfg) == st.nodes % CheckEvery = 0 /\ st.nodes >= cfg.deadline

Ret(score, st) == [score |-> score, st |-> st]

Maker(cfg, maximizing_player) == IF maximizing_player THEN Opp(cfg.my_color) ELSE cfg.my_color

Mover(cfg, maximizing_player) == IF maximizing_player THEN cfg.my_color ELSE Opp(cfg.my_color)

\* A for loop over the moves is run on its loop variables lv, a record that
\* holds the locals the loop updates, the engine state st and exit: "run"
\* while the loop goes on, "break" after a break, "return" after a return
\* from inside the loop.  Loop(lo, hi, lv) runs the iterations lo..hi in
\* order, each on the variables the one before left, and none once the loop
\* has exited.
\* quiescence_search, the body of its for loops once the recursive call has
\* returned r
QuiescenceUpdate(lv, r, maximizing_player) ==
    IF maximizing_player
    THEN IF r.score >= lv.beta THEN [lv EXCEPT !.st = r.st, !.exit = "return"]
         ELSE [lv EXCEPT !.alpha = Max2(@, r.score), !.st = r.st]
    ELSE IF r.score <= lv.alpha THEN [lv EXCEPT !.st = r.st, !.exit = "return"]
         ELSE [lv EXCEPT !.beta = Min2(@, r.score), !.st = r.st]

\* quiescence_search, what it returns when its for loop has ended on lv
QuiescenceEnd(lv, maximizing_player) ==
    IF maximizing_player
    THEN Ret(IF lv.exit = "return" THEN lv.beta ELSE lv.alpha, lv.st)
    ELSE Ret(IF lv.exit = "return" THEN lv.alpha ELSE lv.beta, lv.st)

RECURSIVE quiescence_search(_, _, _, _, _, _, _)
RECURSIVE QuiescenceStep(_, _, _, _, _, _)
RECURSIVE QuiescenceLoop(_, _, _, _, _, _, _, _)
RECURSIVE QuiescenceMoves(_, _, _, _, _, _, _, _, _)
\* one iteration of the for loops of quiescence_search
QuiescenceStep(b, move, lv, maximizing_player, q_depth, cfg) ==
    QuiescenceUpdate(lv,
                     quiescence_search(Simulate(b, move), lv.alpha, lv.beta,
                                       ~maximizing_player, q_depth - 1, lv.st, cfg),
                     maximizing_player)

\* the for loops of quiescence_search over the noisy moves lo..hi
QuiescenceLoop(b, moves, lo, hi, lv, maximizing_player, q_depth, cfg) ==
    IF lv.exit # "run" THEN lv
    ELSE IF lo = hi THEN QuiescenceStep(b, moves[lo], lv, maximizing_player, q_depth, cfg)
    ELSE LET mid == (lo + hi) \div 2
         IN  QuiescenceLoop(b, moves, mid + 1, hi,
                            QuiescenceLoop(b, moves, lo, mid, lv, maximizing_player,
                                           q_depth, cfg),
                            maximizing_player, q_depth, cfg)

\* quiescence_search from `if not moves`, alpha and beta raised by stand_pat
QuiescenceMoves(b, moves, stand_pat, alpha, beta, maximizing_player, q_depth, st, cfg) ==
    IF moves = <<>> THEN Ret(stand_pat, st)
    ELSE QuiescenceEnd(QuiescenceLoop(b, moves, 1, Len(moves),
                                      [alpha |-> alpha, beta |-> beta, st |-> st,
                                       exit |-> "run"],
                                      maximizing_player, q_depth, cfg),
                       maximizing_player)

\* quiescence_search(board, alpha, beta, maximizing_player, q_depth)
quiescence_search(b, alpha, beta, maximizing_player, q_depth, st0, cfg) ==
    LET st == [st0 EXCEPT !.nodes = @ + 1]
        stand_pat == evaluate(b, cfg.my_color, NoMove, Maker(cfg, maximizing_player),
                              cfg.weights)
    IN  IF maximizing_player /\ stand_pat >= beta THEN Ret(beta, st)
        ELSE IF ~maximizing_player /\ stand_pat <= alpha THEN Ret(alpha, st)
        ELSE IF q_depth = 0 THEN Ret(stand_pat, st)
        ELSE QuiescenceMoves(b, NoisyMoves(b, Mover(cfg, maximizing_player)), stand_pat,
                             IF maximizing_player THEN Max2(alpha, stand_pat) ELSE alpha,
                             IF maximizing_player THEN beta ELSE Min2(beta, stand_pat),
                             maximizing_player, q_depth, st, cfg)

\* TT Store of minimax_ab: the flag is computed from the alpha and beta the
\* node holds when its loop ends
TTStore(st, state_key_, depth, value, alpha, beta) ==
    LET flag == IF value <= alpha THEN "upper"
                ELSE IF value >= beta THEN "lower"
                ELSE "exact"
        entry == [score |-> value, depth |-> depth, flag |-> flag]
    IN  [st EXCEPT !.tt = (state_key_ :> entry) @@ @]

\* minimax_ab, the body of its for loops once the recursive call has returned
\* r; value is max_eval or min_eval
MinimaxAbUpdate(lv, r, maximizing_player) ==
    LET value == IF maximizing_player THEN Max2(lv.value, r.score)
                 ELSE Min2(lv.value, r.score)
        alpha == IF maximizing_player THEN Max2(lv.alpha, r.score) ELSE lv.alpha
        beta == IF maximizing_player THEN lv.beta ELSE Min2(lv.beta, r.score)
    IN  IF beta <= alpha
        THEN [alpha |-> alpha, beta |-> beta, value |-> value,
              st |-> [r.st EXCEPT !.cutoffs = @ + 1], exit |-> "break"]
        ELSE [alpha |-> alpha, beta |-> beta, value |-> value,
              st |-> r.st, exit |-> "run"]

\* minimax_ab, what it returns when its for loop has ended on lv: the TT
\* Store is skipped by the return on the clock
MinimaxAbEnd(lv, key, depth) ==
    IF lv.exit = "return" THEN Ret(lv.value, lv.st)
    ELSE Ret(lv.value, TTStore(lv.st, key, depth, lv.value, lv.alpha, lv.beta))

RECURSIVE minimax_ab(_, _, _, _, _, _, _, _)
RECURSIVE MinimaxAbStep(_, _, _, _, _, _)
RECURSIVE MinimaxAbLoop(_, _, _, _, _, _, _, _)
RECURSIVE MinimaxAbMoves(_, _, _, _, _, _, _, _, _, _)
\* one iteration of the for loops of minimax_ab
MinimaxAbStep(b, depth, move, lv, maximizing_player, cfg) ==
    IF TimeUp(lv.st, cfg) THEN [lv EXCEPT !.st.aborted = TRUE, !.exit = "return"]
    ELSE MinimaxAbUpdate(lv,
                         minimax_ab(Simulate(b, move), depth - 1, lv.alpha, lv.beta,
                                    ~maximizing_player, move, lv.st, cfg),
                         maximizing_player)

\* the for loops of minimax_ab over the ordered moves lo..hi
MinimaxAbLoop(b, depth, moves, lo, hi, lv, maximizing_player, cfg) ==
    IF lv.exit # "run" THEN lv
    ELSE IF lo = hi THEN MinimaxAbStep(b, depth, moves[lo], lv, maximizing_player, cfg)
    ELSE LET mid == (lo + hi) \div 2
         IN  MinimaxAbLoop(b, depth, moves, mid + 1, hi,
                           MinimaxAbLoop(b, depth, moves, lo, mid, lv, maximizing_player,
                                         cfg),
                           maximizing_player, cfg)

\* minimax_ab from `if not moves`
MinimaxAbMoves(b, depth, moves, alpha, beta, maximizing_player, last_move, key, st, cfg) ==
    IF moves = <<>>
    THEN Ret(evaluate(b, cfg.my_color, last_move, Maker(cfg, maximizing_player),
                      cfg.weights), st)
    ELSE MinimaxAbEnd(MinimaxAbLoop(b, depth, moves, 1, Len(moves),
                                    [alpha |-> alpha, beta |-> beta,
                                     value |-> IF maximizing_player THEN NegInf
                                               ELSE PosInf,
                                     st |-> st, exit |-> "run"],
                                    maximizing_player, cfg),
                      key, depth)

\* minimax_ab that uses a transposition entry of any depth
minimax_ab_AnyDepth(b, depth, alpha0, beta0, maximizing_player, last_move, st0, cfg) ==
    LET st == [st0 EXCEPT !.nodes = @ + 1]
        key == state_key(b, maximizing_player)
        usable == key \in DOMAIN st.tt
        entry == st.tt[key]
        hit == [st EXCEPT !.cache_hits = @ + 1]
    IN  IF usable /\ entry.flag = "exact" THEN Ret(entry.score, hit)
        ELSE LET alpha == IF usable /\ entry.flag = "lower" /\ entry.score > alpha0
                          THEN entry.score ELSE alpha0
                 beta == IF usable /\ entry.flag = "upper" /\ entry.score < beta0
                         THEN entry.score ELSE beta0
             IN  IF usable /\ alpha >= beta THEN Ret(entry.score, hit)
                 ELSE IF depth = 0 \/ is_game_over(b)
                 THEN quiescence_search(b, alpha, beta, maximizing_player, 2, st, cfg)
                 ELSE MinimaxAbMoves(b, depth,
                                     get_ordered_moves(b, Mover(cfg, maximizing_player)),
                                     alpha, beta, maximizing_player, last_move, key, st,
                                     cfg)

\* minimax_ab(board, depth, alpha, beta, maximizing_player, start_time, last_move)
minimax_ab(b, depth, alpha0, beta0, maximizing_player, last_move, st0, cfg) ==
    LET st == [st0 EXCEPT !.nodes = @ + 1]
        key == state_key(b, maximizing_player)
        usable == key \in DOMAIN st.tt /\ st.tt[key].depth >= depth
        entry == st.tt[key]
        hit == [st EXCEPT !.cache_hits = @ + 1]
    IN  IF usable /\ entry.flag = "exact" THEN Ret(entry.score, hit)
        ELSE LET alpha == IF usable /\ entry.flag = "lower" /\ entry.score > alpha0
                          THEN entry.score ELSE alpha0
                 beta == IF usable /\ entry.flag = "upper" /\ entry.score < beta0
                         THEN entry.score ELSE beta0
             IN  IF usable /\ alpha >= beta THEN Ret(entry.score, hit)
                 ELSE IF depth = 0 \/ is_game_over(b)
                 THEN quiescence_search(b, alpha, beta, maximizing_player, 2, st, cfg)
                 ELSE MinimaxAbMoves(b, depth,
                                     get_ordered_moves(b, Mover(cfg, maximizing_player)),
                                     alpha, beta, maximizing_player, last_move, key, st,
                                     cfg)

\* minimax_pure, the body of its for loops once the recursive call has
\* returned r; value is max_eval or min_eval
MinimaxPureUpdate(lv, r, maximizing_player) ==
    [lv EXCEPT !.value = IF maximizing_player THEN Max2(@, r.score)
                         ELSE Min2(@, r.score),
               !.st = r.st]

\* minimax_pure, what it returns when its for loop has ended on lv
MinimaxPureEnd(lv) == Ret(lv.value, lv.st)

RECURSIVE minimax_pure(_, _, _, _, _, _)
RECURSIVE MinimaxPureStep(_, _, _, _, _, _)
RECURSIVE MinimaxPureLoop(_, _, _, _, _, _, _, _)
RECURSIVE MinimaxPureMoves(_, _, _, _, _, _, _)
\* one iteration of the for loops of minimax_pure
MinimaxPureStep(b, depth, move, lv, maximizing_player, cfg) ==
    MinimaxPureUpdate(lv,
                      minimax_pure(Simulate(b, move), depth - 1, ~maximizing_player,
                                   move, lv.st, cfg),
                      maximizing_player)

\* the for loops of minimax_pure over the moves lo..hi
MinimaxPureLoop(b, depth, moves, lo, hi, lv, maximizing_player, cfg) ==
    IF lv.exit # "run" THEN lv
    ELSE IF lo = hi THEN MinimaxPureStep(b, depth, moves[lo], lv, maximizing_player, cfg)
    ELSE LET mid == (lo + hi) \div 2
         IN  MinimaxPureLoop(b, depth, moves, mid + 1, hi,
                             MinimaxPureLoop(b, depth, moves, lo, mid, lv,
                                             maximizing_player, cfg),
                             maximizing_player, cfg)

\* minimax_pure from `if not moves`
MinimaxPureMoves(b, depth, moves, maximizing_player, last_move, st, cfg) ==
    IF moves = <<>>
    THEN Ret(evaluate(b, cfg.my_color, last_move, Maker(cfg, maximizing_player),
                      cfg.weights), st)
    ELSE MinimaxPureEnd(MinimaxPureLoop(b, depth, moves, 1, Len(moves),
                                        [value |-> IF maximizing_player THEN NegInf
                                                   ELSE PosInf,
                                         st |-> st, exit |-> "run"],
                                        maximizing_player, cfg))

\* minimax_pure(board, depth, maximizing_player, start_time, last_move): the
\* clock is read every 100 nodes and the reading is not acted on
minimax_pure(b, depth, maximizing_player, last_move, st0, cfg) ==
    LET st == [st0 EXCEPT !.nodes = @ + 1]
    IN  IF depth = 0 \/ is_game_over(b)
        THEN Ret(evaluate(b, cfg.my_color, last_move, Maker(cfg, maximizing_player),
                          cfg.weights), st)
        ELSE MinimaxPureMoves(b, depth,
                              get_all_legal_moves(b, Mover(cfg, maximizing_player)),
                              maximizing_player, last_move, st, cfg)

\* an evaluation breakdown is held by its 'Total' entry, the sum of the others:
\* <<total>>, and <<>> for the empty dict
NoBreakdown == <<>>

Breakdown(total) == <<total>>

\* time.time() - start_time in ticks of a clock that has advanced by one when
\* it is first read and advances by one with every node explored
Elapsed(nodes) == nodes + 1

\* AbaloneAI.__init__: the fields the searches read and write (time_limit in
\* seconds).  The entries of self.metrics are the fields nodes_explored,
\* execution_time, last_move_breakdown, depth_history, current_depth,
\* time_elapsed, cutoffs, cache_hits and score (<<>> while the dict has no
\* 'score' key, <<value>> once it has).
NewAI ==
    [algorithm_type |-> "Greedy", max_depth |-> 1, time_limit |-> 3, my_color |-> "W",
     weights |-> <<1000, 10, 5, 1>>, position_history |-> <<>>,
     transposition_table |-> <<>>, nodes_explored |-> 0, cutoffs |-> 0,
     cache_hits |-> 0, depth_history |-> <<>>, execution_time |-> 0,
     last_move_breakdown |-> NoBreakdown, current_depth |-> 0, time_elapsed |-> 0,
     score |-> <<>>]

\* the reset that keeps the nodes, depths and score of the calls before
ResetMetrics_Cumulative(a) ==
    [a EXCEPT !.execution_time = 0, !.last_move_breakdown = NoBreakdown,
              !.current_depth = 0, !.time_elapsed = 0, !.cutoffs = 0, !.cache_hits = 0]

\* self.metrics = {...} of get_best_move: a new dict, every entry zero or empty
ResetMetrics(a) ==
    [a EXCEPT !.nodes_explored = 0, !.execution_time = 0,
              !.last_move_breakdown = NoBreakdown, !.depth_history = <<>>,
              !.current_depth = 0, !.time_elapsed = 0, !.cutoffs = 0, !.cache_hits = 0,
              !.score = <<>>]

\* update_history that drops the newest entry when the list is full
update_history_DropNewest(a, b) ==
    LET appended == Append(a.position_history, board_hash(b))
    IN  [a EXCEPT !.position_history =
                     IF Len(appended) > 6 THEN SubSeq(appended, 1, 6) ELSE appended]

\* update_history(board): append the hash, then pop(0) when more than 6 are held
update_history(a, b) ==
    LET appended == Append(a.position_history, board_hash(b))
    IN  [a EXCEPT !.position_history =
                     IF Len(appended) > 6 THEN Tail(appended) ELSE appended]

\* set_config(algorithm_type, max_depth, time_limit, my_color)
set_config(a, algorithm_type, max_depth, time_limit, my_color) ==
    [a EXCEPT !.algorithm_type = algorithm_type,
              !.max_depth = max_depth,
              !.time_limit = time_limit,
              !.my_color = my_color,
              !.weights = WeightsOf(algorithm_type)]

\* the engine state a search starts from, and the engine after a search
StOf(a) ==
    [nodes |-> a.nodes_explored, tt |-> a.transposition_table, cutoffs |-> a.cutoffs,
     cache_hits |-> a.cache_hits, aborted |-> FALSE]

WithSt(a, st) ==
    [a EXCEPT !.nodes_explored = st.nodes,
              !.transposition_table = st.tt,
              !.cutoffs = st.cutoffs,
              !.cache_hits = st.cache_hits]

\* minimax_pure writes time_elapsed when nodes_explored is a multiple of 100:
\* the engine after a search that began at `before` nodes
PureClockRead(a, before) ==
    IF a.nodes_explored \div CheckEvery > before \div CheckEvery
    THEN [a EXCEPT !.time_elapsed =
                      Elapsed((a.nodes_explored \div CheckEvery) * CheckEvery)]
    ELSE a

CfgOf(a, deadline) == [my_color |-> a.my_color, weights |-> a.weights, deadline |-> deadline]

\* the caller's board after sim_board = self._clone_board(board) and
\* sim_board.apply_move(move): written only if sim_board is the caller's object
LiveAfterSimulate(b, move) == IF _clone_board(b).alias THEN apply_move(b, move) ELSE b

Reverse(s) == [i \in 1..Len(s) |-> s[Len(s) + 1 - i]]

Rotate(s, k) == [i \in 1..Len(s) |-> s[((i - 1 + k) % Len(s)) + 1]]

\* random.shuffle(moves): the orders followed
Shuffles(s) ==
    IF s = <<>> THEN {<<>>}
    ELSE {Rotate(s, k) : k \in 0..(ShuffleRotations - 1)} \cup {Reverse(s)}

\* ------------------------------------------------------------------- state
VARIABLES
    board,   \* the live Board object
    call,    \* the last call made on the board: its inputs, its result, the board before it
    plies,   \* number of apply_move calls made so far
    ai,      \* the AbaloneAI object
    run      \* the frame of the get_best_move call in progress, and a log of its depths

vars == <<board, call, plies, ai, run>>

\* ------------------------------------------------------------ call inputs
\* sequences without repetition over the members of S
Perms(S) == {s \in [1..Cardinality(S) -> S] : \A i, j \in 1..Cardinality(S) : s[i] = s[j] => i = j}

OwnCells(g, color) == {c \in DOMAIN g : g[c] = color}

\* straight segments of 1..3 marbles of one colour, as sets
Segments(g, color) ==
    LET own == OwnCells(g, color)
    IN  {S \in {{Plus(c, <<k * DIRECTIONS[i][1], k * DIRECTIONS[i][2]>>) : k \in 0..(n - 1)} :
                 c \in own, i \in {1, 2, 6}, n \in 1..3} : S \subseteq own}

\* the six neighbours of the members of a selection
NeighborCells(S) == {Plus(c, d) : c \in S, d \in DirSet}

\* the two orders in which a player picks a segment end to end
Orders(S) ==
    LET up == sorted(CHOOSE s \in Perms(S) : TRUE)
    IN  {up, [i \in 1..Len(up) |-> up[Len(up) + 1 - i]]}

\* every selection of 1..3 marbles of one colour, in every order
AllSelections(g, color) ==
    UNION {Perms(S) : S \in {T \in SUBSET OwnCells(g, color) : Cardinality(T) \in 1..3}}

\* no call has been made; the fields a call does not use keep these values
\* (nth counts the runs of the same call, pushed lists the hashes of the boards
\* update_history has been called with, in call order, alpha and beta are the
\* window of a minimax_ab call, table the transposition table it found,
\* aborted whether a time check ended it and stored_by the my_color of the
\* engine when the entries of that table were stored)
NoCall ==
    [op |-> "none", selected |-> <<>>, target |-> <<0, 0>>, result |-> NoMove,
     before |-> NewBoard, returned |-> "None", color |-> "W", moves |-> <<>>,
     depth |-> 0, maximizing_player |-> FALSE, ab_score |-> 0, pure_score |-> 0,
     nth |-> 0, pushed |-> <<>>, alpha |-> 0, beta |-> 0, table |-> <<>>,
     aborted |-> FALSE, stored_by |-> "W"]

\* no get_best_move call is in progress (left_by tells how a deepening loop
\* was left: "time" on a time check, "no_moves" on `if not moves`)
IdleRun ==
    [pc |-> "idle", board0 |-> NewBoard, deadline |-> 0, current_depth |-> 0,
     moves |-> <<>>, i |-> 0, best_score |-> NegInf, best_move |-> NoMove,
     alpha |-> NegInf, final_best_move |-> NoMove, result |-> NoMove, log |-> <<>>,
     left_by |-> "none"]

\* ---------------------------------------------------- the game on one board
\* validate_move accepts and apply_move executes the move
Play(selected, target) ==
    LET m == validate_move(board.grid, selected, target)
    IN  /\ m # NoMove
        /\ board' = apply_move(board, m)
        /\ call' = [NoCall EXCEPT !.op = "apply_move", !.selected = selected,
                                   !.target = target, !.result = m, !.before = board,
                                   !.returned = Winner(apply_move(board, m))]
        /\ plies' = plies + 1
        /\ UNCHANGED <<ai, run>>

\* validate_move returns None: nothing is applied
Reject(selected, target) ==
    /\ validate_move(board.grid, selected, target) = NoMove
    /\ call' = [NoCall EXCEPT !.op = "validate_move", !.selected = selected,
                               !.target = target, !.before = board]
    /\ UNCHANGED <<board, plies, ai, run>>

\* Board() followed by init_board()
Init ==
    /\ board = init_board(NewBoard)
    /\ call = NoCall
    /\ plies = 0
    /\ ai = NewAI
    /\ run = IdleRun

GamePlay ==
    /\ plies < MaxPlies
    /\ \E color \in {"B", "W"} : \E S \in Segments(board.grid, color) :
         \E selected \in Orders(S) : \E target \in NeighborCells(S) :
            Play(selected, target)

Next == GamePlay

Spec == Init /\ [][Next]_vars

\* ------------------------------------------- synthetic positions (add_piece)
\* a row of six cells that ends at the board edge, and one cell beside it
SynRow == << <<-1, 0>>, <<0, 0>>, <<1, 0>>, <<2, 0>>, <<3, 0>>, <<4, 0>> >>

SynSide == <<3, 1>>

SynCells == SeqSet(SynRow) \cup {SynSide}

\* the targets tried on a synthetic position: on the row, beside it, off the board
SynTargets ==
    ({<<q, 0>> : q \in -2..5} \cup {<<q, 1>> : q \in 1..4}) \cup {<<q, -1>> : q \in 2..5}

\* Board() followed by add_piece for every marble of the placement
RECURSIVE AddAll(_, _, _)
AddAll(b, placement, cells) ==
    IF cells = <<>> THEN b
    ELSE AddAll(IF placement[Head(cells)] = "." THEN b
                ELSE add_piece(b, Head(cells), placement[Head(cells)]),
                placement, Tail(cells))

SynBoards ==
    {AddAll(NewBoard, placement, Append(SynRow, SynSide)) :
        placement \in {f \in [SynCells -> {".", "B", "W"}] :
                          /\ Cardinality({c \in SynCells : f[c] # "."}) \in 1..MaxSynMarbles
                          /\ f[SynSide] # "." =>
                                Cardinality({c \in SynCells : f[c] # "."}) <= MaxSideMarbles}}

InitSyn ==
    /\ board \in SynBoards
    /\ call = NoCall
    /\ plies = 0
    /\ ai = NewAI
    /\ run = IdleRun

\* one call is made on a synthetic position
SynPlay ==
    /\ call.op = "none"
    /\ \E color \in {"B", "W"} : \E selected \in AllSelections(board.grid, color) :
         \E target \in SynTargets : Play(selected, target)

SynReject ==
    /\ call.op = "none"
    /\ \E color \in {"B", "W"} : \E selected \in AllSelections(board.grid, color) :
         \E target \in SynTargets : Reject(selected, target)

NextSyn == SynPlay \/ SynReject

SpecSyn == InitSyn /\ [][NextSyn]_vars

\* ------------------------------------------------ get_best_move on one board
\* Board() followed by add_piece for every <<cell, colour>> pair
RECURSIVE Place(_, _)
Place(b, pieces) ==
    IF pieces = <<>> THEN b
    ELSE Place(add_piece(b, Head(pieces)[1], Head(pieces)[2]), Tail(pieces))

\* the positions searched: two against one in mid-board and at the edge, a
\* marble with every neighbour an opposing marble, three against one with a
\* marble behind, one against two at the edge, and a board of one colour
AIPositions ==
    << << <<<<0, 0>>, "B">>, <<<<1, 0>>, "B">>, <<<<2, 0>>, "W">> >>,
       << <<<<2, 0>>, "B">>, <<<<3, 0>>, "B">>, <<<<4, 0>>, "W">> >>,
       << <<<<0, 0>>, "B">>, <<<<1, 0>>, "W">>, <<<<1, -1>>, "W">>, <<<<0, -1>>, "W">>,
          <<<<-1, 0>>, "W">>, <<<<-1, 1>>, "W">>, <<<<0, 1>>, "W">> >>,
       << <<<<1, 0>>, "B">>, <<<<2, 0>>, "B">>, <<<<3, 0>>, "B">>, <<<<4, 0>>, "W">>,
          <<<<0, 0>>, "W">> >>,
       << <<<<2, 0>>, "B">>, <<<<3, 0>>, "W">>, <<<<4, 0>>, "W">> >>,
       << <<<<0, 0>>, "W">> >> >>

AIBoards == {Place(NewBoard, AIPositions[k]) : k \in 1..Len(AIPositions)}

\* the names set_config is called with ("Minimax" is offered by board_ui.py)
Algorithms == {"Greedy", "ID Minimax", "Minimax+ABP", "Minimax"}

\* the time_limit the game drivers pass to set_config, in seconds
TimeBudget == 3

\* the values of nodes_explored from which time.time() - start_time exceeds
\* self.time_limit
Deadlines == {k * DeadlineStep : k \in 0..MaxDeadlineSteps} \cup {NoDeadline}

\* time.time() - start_time > self.time_limit, read at the root
Late(a, r) == a.nodes_explored >= r.deadline

\* time.time() - start_time > the time_limit set_config was called with, on a
\* clock that advances evenly with nodes_explored: it passes self.time_limit
\* at r.deadline nodes, so it passes TimeBudget at
\* r.deadline * TimeBudget / self.time_limit nodes, and passes neither when
\* the deadline is NoDeadline
BudgetLate(a, r) ==
    /\ r.deadline # NoDeadline
    /\ a.nodes_explored * a.time_limit >= r.deadline * TimeBudget

\* the entry of the depth log for the depth in progress
LogEntry(n) ==
    [root_moves |-> n, searched |-> 0, aborted |-> FALSE, late |-> FALSE, kept |-> FALSE,
     best |-> NoMove, over_budget |-> FALSE]

\* what the iterative-deepening loops return when they leave on `timeout`,
\* the partial depth's best move
TimeoutResult_Partial(r) ==
    IF r.best_move # NoMove THEN r.best_move ELSE r.final_best_move

\* what the iterative-deepening loops return when they leave on `timeout`
TimeoutResult(r) == r.final_best_move

\* get_best_move, after the algorithm has returned: execution_time is written
Returned(a) == [a EXCEPT !.execution_time = Elapsed(a.nodes_explored)]

\* get_best_move(board): the metrics are reset and the algorithm is entered;
\* _greedy_logic generates its moves and returns None when there are none
GetBestMove ==
    /\ run.pc = "idle"
    /\ \E deadline \in (IF ai.algorithm_type \in {"ID Minimax", "IDS", "Minimax+ABP"}
                        THEN Deadlines ELSE {NoDeadline}) :
         LET a0 == ResetMetrics(ai)
             frame == [IdleRun EXCEPT !.board0 = board, !.deadline = deadline]
         IN  IF ai.algorithm_type = "Greedy"
             THEN \E moves \in {get_all_legal_moves(board, ai.my_color)} :
                    /\ ai' = IF moves = <<>> THEN Returned(a0) ELSE a0
                    /\ run' = IF moves = <<>> THEN [frame EXCEPT !.pc = "done"]
                              ELSE [frame EXCEPT !.pc = "greedy", !.moves = moves,
                                                 !.i = 1]
             ELSE IF ai.algorithm_type \in {"ID Minimax", "IDS"}
             THEN /\ ai' = a0
                  /\ run' = [frame EXCEPT !.pc = "while", !.current_depth = 1]
             ELSE IF ai.algorithm_type = "Minimax+ABP"
             THEN /\ ai' = [a0 EXCEPT !.time_limit = 5]
                  /\ run' = [frame EXCEPT !.pc = "while", !.current_depth = 1]
             ELSE /\ ai' = a0
                  /\ run' = [frame EXCEPT !.pc = "done"]
    /\ UNCHANGED <<board, call, plies>>

\* the iteration with `score >= best_score`: the last of equal moves is kept
GreedyStep_LastWins ==
    /\ run.pc = "greedy"
    /\ run.i <= Len(run.moves)
    /\ LET move == run.moves[run.i]
           sim_board == Simulate(board, move)
           raw == evaluate(sim_board, ai.my_color, move, ai.my_color, ai.weights)
           score == IF board_hash(sim_board) \in SeqSet(ai.position_history)
                    THEN raw - 5000 ELSE raw
           better == score >= run.best_score
       IN  /\ run' = [run EXCEPT !.i = @ + 1,
                                 !.best_score = IF better THEN score ELSE @,
                                 !.best_move = IF better THEN move ELSE @]
           /\ board' = LiveAfterSimulate(board, move)
    /\ UNCHANGED <<call, plies, ai>>

\* _greedy_logic: one iteration of `for move in moves`
GreedyStep ==
    /\ run.pc = "greedy"
    /\ run.i <= Len(run.moves)
    /\ LET move == run.moves[run.i]
           sim_board == Simulate(board, move)
           raw == evaluate(sim_board, ai.my_color, move, ai.my_color, ai.weights)
           score == IF board_hash(sim_board) \in SeqSet(ai.position_history)
                    THEN raw - 5000 ELSE raw
           better == score > run.best_score
       IN  /\ run' = [run EXCEPT !.i = @ + 1,
                                 !.best_score = IF better THEN score ELSE @,
                                 !.best_move = IF better THEN move ELSE @]
           /\ board' = LiveAfterSimulate(board, move)
    /\ UNCHANGED <<call, plies, ai>>

\* _greedy_logic: last_move_breakdown is written (the breakdown of the best
\* move, its Total the penalised score), return best_move
GreedyReturn ==
    /\ run.pc = "greedy"
    /\ run.i > Len(run.moves)
    /\ run' = [run EXCEPT !.pc = "done", !.result = run.best_move]
    /\ ai' = Returned([ai EXCEPT !.last_move_breakdown = Breakdown(run.best_score)])
    /\ UNCHANGED <<board, call, plies>>

\* the root moves of one depth: shuffled by _ids_logic, ordered by champion_search
RootMoves(a, b) ==
    IF a.algorithm_type = "Minimax+ABP" THEN {get_ordered_moves(b, a.my_color)}
    ELSE Shuffles(get_all_legal_moves(b, a.my_color))

\* the time check of `while True` that goes on to the next depth
WhileTimeout_NextDepth ==
    /\ run.pc = "while"
    /\ Late(ai, run) \/ run.current_depth > MaxDepth
    /\ run' = [run EXCEPT !.current_depth = @ + 1]
    /\ ai' = [ai EXCEPT !.time_elapsed = Elapsed(ai.nodes_explored)]
    /\ UNCHANGED <<board, call, plies>>

\* _ids_logic and champion_search, `while True`: the clock is past the limit
WhileTimeout ==
    /\ run.pc = "while"
    /\ Late(ai, run) \/ run.current_depth > MaxDepth
    /\ run' = [run EXCEPT !.pc = "done", !.result = run.final_best_move,
                          !.left_by = "time"]
    /\ ai' = Returned([ai EXCEPT !.time_elapsed = Elapsed(ai.nodes_explored)])
    /\ UNCHANGED <<board, call, plies>>

\* `while True`: in time, and there are root moves to search at this depth
DepthStart ==
    /\ run.pc = "while"
    /\ ~Late(ai, run)
    /\ run.current_depth <= MaxDepth
    /\ \E moves \in RootMoves(ai, board) :
         /\ moves # <<>>
         /\ run' = [run EXCEPT !.pc = "root", !.moves = moves, !.i = 1,
                               !.best_score = NegInf, !.best_move = NoMove,
                               !.alpha = NegInf,
                               !.log = Append(@, [LogEntry(Len(moves)) EXCEPT
                                                    !.over_budget = BudgetLate(ai, run)])]
    /\ ai' = [ai EXCEPT !.time_elapsed = Elapsed(ai.nodes_explored),
                        !.current_depth = run.current_depth]
    /\ UNCHANGED <<board, call, plies>>

\* `while True`: in time, and `if not moves: break`
NoMovesBreak ==
    /\ run.pc = "while"
    /\ ~Late(ai, run)
    /\ run.current_depth <= MaxDepth
    /\ RootMoves(ai, board) = {<<>>}
    /\ run' = [run EXCEPT !.pc = "done", !.result = run.final_best_move,
                          !.left_by = "no_moves"]
    /\ ai' = Returned([ai EXCEPT !.time_elapsed = Elapsed(ai.nodes_explored),
                                 !.current_depth = run.current_depth])
    /\ UNCHANGED <<board, call, plies>>

\* `for move in moves`, in time: the move is simulated and searched
RootSearch ==
    /\ run.pc = "root"
    /\ run.i <= Len(run.moves)
    /\ ~Late(ai, run)
    /\ LET move == run.moves[run.i]
           sim_board == Simulate(board, move)
           champion == ai.algorithm_type = "Minimax+ABP"
           d == Len(run.log)
       IN  /\ \E r \in {IF champion
                         THEN minimax_ab(sim_board, run.current_depth - 1, run.alpha,
                                         PosInf, FALSE, move, StOf(ai),
                                         CfgOf(ai, run.deadline))
                         ELSE minimax_pure(sim_board, run.current_depth - 1, FALSE, move,
                                           StOf(ai), CfgOf(ai, run.deadline))} :
                LET better == r.score > run.best_score
                    best_score == IF better THEN r.score ELSE run.best_score
                IN  /\ run' = [run EXCEPT !.i = @ + 1,
                                          !.best_score = best_score,
                                          !.best_move = IF better THEN move ELSE @,
                                          !.alpha = IF champion THEN Max2(@, best_score)
                                                    ELSE @,
                                          !.log[d].searched = @ + 1,
                                          !.log[d].over_budget = @ \/ BudgetLate(ai, run),
                                          !.log[d].aborted = @ \/ r.st.aborted]
                    /\ ai' = IF champion THEN WithSt(ai, r.st)
                             ELSE PureClockRead(WithSt(ai, r.st), ai.nodes_explored)
           /\ board' = LiveAfterSimulate(board, move)
    /\ UNCHANGED <<call, plies>>

\* `for move in moves`, the clock is past the limit: timeout = True, both loops
\* are left
RootTimeout ==
    /\ run.pc = "root"
    /\ run.i <= Len(run.moves)
    /\ Late(ai, run)
    /\ run' = [run EXCEPT !.pc = "done", !.result = TimeoutResult(run),
                          !.left_by = "time"]
    /\ ai' = Returned(ai)
    /\ UNCHANGED <<board, call, plies>>

\* the deepening loops ended once max_depth has been searched
DepthComplete_StopAtMaxDepth ==
    /\ run.pc = "root"
    /\ run.i > Len(run.moves)
    /\ LET d == Len(run.log)
       IN  run' = [run EXCEPT !.pc = IF run.current_depth >= ai.max_depth THEN "done"
                                     ELSE "while",
                              !.result = IF run.current_depth >= ai.max_depth
                                         THEN run.best_move ELSE @,
                              !.left_by = IF run.current_depth >= ai.max_depth
                                          THEN "depth" ELSE @,
                              !.final_best_move = run.best_move,
                              !.current_depth = @ + 1,
                              !.log[d].kept = TRUE,
                              !.log[d].late = Late(ai, run),
                              !.log[d].best = run.best_move]
    /\ ai' = [ai EXCEPT !.current_depth = run.current_depth,
                        !.score = <<run.best_score>>,
                        !.depth_history = Append(@, <<run.current_depth, run.best_score>>),
                        !.last_move_breakdown =
                            IF run.best_move # NoMove
                            THEN Breakdown(evaluate(Simulate(board, run.best_move),
                                                    ai.my_color, run.best_move,
                                                    ai.my_color, ai.weights))
                            ELSE @]
    /\ board' = IF run.best_move # NoMove THEN LiveAfterSimulate(board, run.best_move)
                ELSE board
    /\ UNCHANGED <<call, plies>>

\* the root loop has ended without timeout: the depth is recorded, its best
\* move is kept and simulated once more for the metrics, the depth grows
DepthComplete ==
    /\ run.pc = "root"
    /\ run.i > Len(run.moves)
    /\ LET d == Len(run.log)
       IN  run' = [run EXCEPT !.pc = "while",
                              !.final_best_move = run.best_move,
                              !.current_depth = @ + 1,
                              !.log[d].kept = TRUE,
                              !.log[d].late = Late(ai, run),
                              !.log[d].best = run.best_move]
    /\ ai' = [ai EXCEPT !.current_depth = run.current_depth,
                        !.score = <<run.best_score>>,
                        !.depth_history = Append(@, <<run.current_depth, run.best_score>>),
                        !.last_move_breakdown =
                            IF run.best_move # NoMove
                            THEN Breakdown(evaluate(Simulate(board, run.best_move),
                                                    ai.my_color, run.best_move,
                                                    ai.my_color, ai.weights))
                            ELSE @]
    /\ board' = IF run.best_move # NoMove THEN LiveAfterSimulate(board, run.best_move)
                ELSE board
    /\ UNCHANGED <<call, plies>>

\* AbaloneAI() and set_config as the game drivers call it, on a given board
InitAI ==
    /\ board \in AIBoards
    /\ call = NoCall
    /\ plies = 0
    /\ \E algorithm_type \in Algorithms : \E my_color \in {"B", "W"} :
         ai = set_config(NewAI, algorithm_type, 1, TimeBudget, my_color)
    /\ run = IdleRun

NextAI ==
    \/ GetBestMove
    \/ GreedyStep
    \/ GreedyReturn
    \/ WhileTimeout
    \/ DepthStart
    \/ NoMovesBreak
    \/ RootSearch
    \/ RootTimeout
    \/ DepthComplete

SpecAI == InitAI /\ [][NextAI]_vars

\* --------------------------------------------- get_all_legal_moves on a board
\* the centre cell and its six neighbours
ClusterCells == << <<0, 0>>, <<1, 0>>, <<1, -1>>, <<0, -1>>, <<-1, 0>>, <<-1, 1>>, <<0, 1>> >>

ClusterBoards ==
    {AddAll(NewBoard, placement, ClusterCells) :
        placement \in [SeqSet(ClusterCells) -> {".", "B", "W"}]}

InitGen ==
    /\ board \in (ClusterBoards \cup AIBoards) \cup {init_board(NewBoard)}
    /\ call = NoCall
    /\ plies = 0
    /\ ai = NewAI
    /\ run = IdleRun

\* one call of get_all_legal_moves(board, color)
Generate ==
    /\ call.op = "none"
    /\ \E color \in {"B", "W"} :
         call' = [NoCall EXCEPT !.op = "get_all_legal_moves", !.color = color,
                                !.before = board, !.nth = 1,
                                !.moves = get_all_legal_moves(board, color)]
    /\ UNCHANGED <<board, plies, ai, run>>

\* a run of get_all_legal_moves that leaves out a move picked at random
GenerateAgain_RandomDrop ==
    /\ call.op = "get_all_legal_moves"
    /\ call.nth < MaxRuns
    /\ \E moves \in {get_all_legal_moves(board, call.color)} :
         \E drop \in 0..Len(moves) :
            call' = [call EXCEPT !.nth = @ + 1,
                                 !.moves = SelectSeq([k \in 1..Len(moves) |->
                                                         IF k = drop THEN NoMove
                                                         ELSE moves[k]],
                                                     LAMBDA m : m # NoMove)]
    /\ UNCHANGED <<board, plies, ai, run>>

\* the same call run once more on the same board
GenerateAgain ==
    /\ call.op = "get_all_legal_moves"
    /\ call.nth < MaxRuns
    /\ \E moves \in {get_all_legal_moves(board, call.color)} :
         call' = [call EXCEPT !.nth = @ + 1, !.moves = moves]
    /\ UNCHANGED <<board, plies, ai, run>>

NextGen == Generate \/ GenerateAgain

SpecGen == InitGen /\ [][NextGen]_vars

\* ------------------------------------ minimax_ab and minimax_pure side by side
EqBoards ==
    {b \in AIBoards \cup SynBoards : Cardinality(DOMAIN b.grid) <= MaxEqMarbles}

InitEq ==
    /\ board \in EqBoards
    /\ call = NoCall
    /\ plies = 0
    /\ \E my_color \in {"B", "W"} : ai = set_config(NewAI, "Minimax+ABP", 1, TimeBudget, my_color)
    /\ run = IdleRun

\* both searches from the same position, each on a fresh engine of the same
\* colour and weights, to a fixed depth, the clock never past the limit
Compare ==
    /\ call.op = "none"
    /\ \E depth \in 0..MaxEqDepth : \E maximizing_player \in BOOLEAN :
         \E ab \in {minimax_ab(board, depth, NegInf, PosInf, maximizing_player, NoMove,
                                StOf(ai), CfgOf(ai, NoDeadline))} :
         \E pure \in {minimax_pure(board, depth, maximizing_player, NoMove,
                                    StOf(ai), CfgOf(ai, NoDeadline))} :
             call' = [NoCall EXCEPT !.op = "minimax", !.before = board,
                                    !.color = ai.my_color, !.depth = depth,
                                    !.maximizing_player = maximizing_player,
                                    !.ab_score = ab.score, !.pure_score = pure.score]
    /\ UNCHANGED <<board, plies, ai, run>>

NextEq == Compare

SpecEq == InitEq /\ [][NextEq]_vars

\* ------------------------------------------------------------ claims C1-C4
Scale(d, k) == <<k * d[1], k * d[2]>>

\* the n cells from h against direction d, and the n cells from t along d
Behind(h, d, n) == {Minus(h, Scale(d, k)) : k \in 0..(n - 1)}

Ahead(t, d, n) == {Plus(t, Scale(d, k)) : k \in 0..(n - 1)}

OccupiedCount(b) == Cardinality(DOMAIN b.grid)

\* C1: marble conservation. In every board state reached from init_board by
\* apply_move calls on moves validate_move returned, the occupied cells plus
\* black_score plus white_score number 28.
C1_Conservation == OccupiedCount(board) + board.black_score + board.white_score = 28

\* a marble has left the board and the count still balances
C1_Witness ==
    /\ call.op = "apply_move"
    /\ OccupiedCount(board) < 28
    /\ board.black_score + board.white_score = 28 - OccupiedCount(board)

\* the call is: n own marbles in a line, moved along d onto a chain of exactly
\* m opposing marbles, the cell beyond that chain unoccupied
SumitoCase(c, d, n, m) ==
    LET g == c.before.grid
        h == Minus(c.target, d)
    IN  /\ c.op # "none"
        /\ Len(c.selected) = n
        /\ SeqSet(c.selected) = Behind(h, d, n)
        /\ \A x \in Behind(h, d, n) : x \in DOMAIN g /\ g[x] = g[h]
        /\ \A x \in Ahead(c.target, d, m) : x \in DOMAIN g /\ g[x] # g[h]
        /\ Plus(c.target, Scale(d, m)) \notin DOMAIN g

\* C2: sumito legality. N own marbles in line (1 <= N <= 3) against a chain
\* of M opposing marbles with the cell beyond unoccupied: validate_move
\* returns a push move if and only if N > M.
C2_SumitoLegality ==
    \A d \in DirSet : \A n \in 1..3 : \A m \in 1..6 :
        SumitoCase(call, d, n, m) =>
            /\ (call.result # NoMove) <=> (n > m)
            /\ call.result # NoMove =>
                 /\ call.result.type = "inline"
                 /\ call.result.dir = d
                 /\ SeqSet(call.result.marbles) = SeqSet(call.selected)
                 /\ SeqSet(call.result.push_opponent) = Ahead(call.target, d, m)
                 /\ Len(call.result.push_opponent) = m

\* a 3-against-2 push was accepted
C2_Witness ==
    \E d \in DirSet : SumitoCase(call, d, 3, 2) /\ call.result # NoMove

\* a 2-against-2 confrontation was rejected
C2_WitnessEqual ==
    \E d \in DirSet : SumitoCase(call, d, 2, 2) /\ call.result = NoMove

StraightLine(S) == \E c \in S : \E d \in DirSet : S = Behind(c, d, Cardinality(S))

Adjacent(t, S) == \E c \in S : Minus(t, c) \in DirSet

\* C3: validate_move returns None for every selection of 2 or 3 marbles that
\* is not a straight line of adjacent cells, and for every target that is
\* adjacent to no selected marble.
C3_InvalidRejected ==
    (/\ call.op # "none"
     /\ \/ Len(call.selected) \in 2..3 /\ ~StraightLine(SeqSet(call.selected))
        \/ ~Adjacent(call.target, SeqSet(call.selected)))
    => call.result = NoMove

\* three marbles that are no straight line, with a target next to one of them
C3_Witness ==
    /\ call.op = "validate_move"
    /\ Len(call.selected) = 3
    /\ ~StraightLine(SeqSet(call.selected))
    /\ Adjacent(call.target, SeqSet(call.selected))
    /\ call.result = NoMove

\* the applied move pushed a chain whose last marble stood at the board edge
EdgePush(c) ==
    /\ c.op = "apply_move"
    /\ c.result.push_opponent # <<>>
    /\ ~OnBoard(Plus(c.result.push_opponent[Len(c.result.push_opponent)], c.result.dir))

\* C4: capture by push. When the pushed chain ends at the board edge, exactly
\* its last marble leaves the board, the pushing colour's score grows by one,
\* the other score is unchanged, and every other moving or pushed marble ends
\* one cell further in the move direction.
C4_CaptureByPush ==
    EdgePush(call) =>
        LET m == call.result
            g == call.before.grid
            last == m.push_opponent[Len(m.push_opponent)]
            movers == SeqSet(m.marbles) \cup SeqSet(m.push_opponent)
            kept == movers \ {last}
            pusher == g[m.marbles[1]]
        IN  /\ DOMAIN board.grid = ((DOMAIN g) \ movers) \cup {Plus(x, m.dir) : x \in kept}
            /\ OccupiedCount(board) = OccupiedCount(call.before) - 1
            /\ \A x \in kept : board.grid[Plus(x, m.dir)] = g[x]
            /\ \A x \in (DOMAIN g) \ movers : board.grid[x] = g[x]
            /\ IF pusher = "B"
               THEN /\ board.black_score = call.before.black_score + 1
                    /\ board.white_score = call.before.white_score
               ELSE /\ board.white_score = call.before.white_score + 1
                    /\ board.black_score = call.before.black_score

\* three marbles have pushed two, the second of them off the edge
C4_Witness ==
    /\ EdgePush(call)
    /\ Len(call.result.marbles) = 3
    /\ Len(call.result.push_opponent) = 2
    /\ OccupiedCount(board) = OccupiedCount(call.before) - 1

\* ----------------------------------------------------------- claims C5-C10
Deepening == {"ID Minimax", "Minimax+ABP"}

\* the rules allow the colour some move: a straight segment of its marbles,
\* picked from either end, and a neighbouring target that validate_move accepts
HasLegalMove(b, color) ==
    \E S \in Segments(b.grid, color) : \E selected \in Orders(S) :
        \E target \in NeighborCells(S) : validate_move(b.grid, selected, target) # NoMove

C5_WitnessGreedy ==
    run.pc = "done" /\ ai.algorithm_type = "Greedy" /\ run.result # NoMove

\* a pure-minimax search has completed two depths
C5_WitnessIds ==
    /\ run.pc = "done"
    /\ ai.algorithm_type = "ID Minimax"
    /\ Len(run.log) = 2
    /\ run.log[2].kept

\* C6: anytime guarantee. Under ID Minimax and Minimax+ABP get_best_move
\* returns a move only after every root move of depth 1 has been searched, and
\* returns none when the engine's colour has no legal move.
C6_AnytimeGuarantee ==
    (run.pc = "done" /\ ai.algorithm_type \in Deepening) =>
        /\ run.result # NoMove =>
             /\ Len(run.log) >= 1
             /\ run.log[1].root_moves > 0
             /\ run.log[1].searched = run.log[1].root_moves
        /\ ~HasLegalMove(run.board0, ai.my_color) => run.result = NoMove

\* a pure-minimax search returned a move: depth 1 was searched in full, the
\* clock ran out among the root moves of depth 2
C6_Witness ==
    /\ run.pc = "done"
    /\ ai.algorithm_type = "ID Minimax"
    /\ run.result # NoMove
    /\ Len(run.log) = 2
    /\ run.log[1].searched = run.log[1].root_moves
    /\ run.log[2].searched > 0
    /\ run.log[2].searched < run.log[2].root_moves

\* the clock ran out inside depth 1, after some root move was searched, and no
\* move was returned
C6_WitnessNone ==
    /\ run.pc = "done"
    /\ ai.algorithm_type \in Deepening
    /\ Len(run.log) = 1
    /\ run.log[1].searched > 0
    /\ run.log[1].searched < run.log[1].root_moves
    /\ run.result = NoMove

\* the deepest depth whose root searches all ended in time and unaborted; 0
\* when there is none
DeepestInTime(log) ==
    LET ok == {d \in 1..Len(log) : log[d].kept /\ ~log[d].late /\ ~log[d].aborted}
    IN  IF ok = {} THEN 0 ELSE CHOOSE d \in ok : \A e \in ok : e <= d

\* C7: only fully completed depths count. Under ID Minimax and Minimax+ABP a
\* depth's best move replaces the retained move only if every root search of
\* that depth finished before the clock passed the time limit and none was cut
\* short by a time abort; the move returned is that of the deepest such depth.
C7_OnlyCompletedDepthsCount ==
    /\ \A d \in 1..Len(run.log) :
         run.log[d].kept => (~run.log[d].late /\ ~run.log[d].aborted)
    /\ (run.pc = "done" /\ ai.algorithm_type \in Deepening) =>
         run.result = (IF DeepestInTime(run.log) = 0 THEN NoMove
                       ELSE run.log[DeepestInTime(run.log)].best)

\* C8: pruning preserves the value. From the same position, with the same
\* engine colour and weights, to the same fixed depth and with no time cutoff,
\* minimax_ab called with the full window returns the score minimax_pure returns.
C8_PruningPreservesValue ==
    call.op = "minimax" => call.ab_score = call.pure_score

\* the two searches were run to the deepest depth compared and agree
C8_Agree ==
    call.op = "minimax" /\ call.depth = MaxEqDepth /\ call.ab_score = call.pure_score

\* C9: forfeit signal. When the engine's colour has no legal move on the
\* board, get_best_move returns None under Greedy, ID Minimax and Minimax+ABP;
\* no step of the call reads a move that is not there.
C9_ForfeitSignal ==
    (/\ run.pc = "done"
     /\ ai.algorithm_type \in {"Greedy", "ID Minimax", "Minimax+ABP"}
     /\ ~HasLegalMove(run.board0, ai.my_color))
    => run.result = NoMove

\* the engine's only marble has an opposing marble on every side, and the
\* alpha-beta search has returned None in time
C9_Witness ==
    /\ run.pc = "done"
    /\ ai.algorithm_type = "Minimax+ABP"
    /\ run.deadline > 0
    /\ OwnCells(run.board0.grid, ai.my_color) # {}
    /\ ~HasLegalMove(run.board0, ai.my_color)
    /\ run.result = NoMove

\* the same under Greedy and under ID Minimax
C9_WitnessGreedy ==
    /\ run.pc = "done"
    /\ ai.algorithm_type = "Greedy"
    /\ OwnCells(run.board0.grid, ai.my_color) # {}
    /\ ~HasLegalMove(run.board0, ai.my_color)
    /\ run.result = NoMove

C9_WitnessIds ==
    /\ run.pc = "done"
    /\ ai.algorithm_type = "ID Minimax"
    /\ run.deadline > 0
    /\ OwnCells(run.board0.grid, ai.my_color) # {}
    /\ ~HasLegalMove(run.board0, ai.my_color)
    /\ run.result = NoMove

\* C10: no duplicate moves. No two moves returned by one call of
\* get_all_legal_moves have the same signature (sorted moving marbles,
\* direction), for any board and colour.
C10_NoDuplicateMoves ==
    call.op = "get_all_legal_moves" =>
        \A i, j \in 1..Len(call.moves) :
            i # j => <<sorted(call.moves[i].marbles), call.moves[i].dir>>
                     # <<sorted(call.moves[j].marbles), call.moves[j].dir>>

\* the call returned in-line and broadside moves of a line of three, reached
\* from more than one seed piece
C10_Witness ==
    /\ call.op = "get_all_legal_moves"
    /\ \E i, j \in 1..Len(call.moves) :
         /\ Len(call.moves[i].marbles) = 3
         /\ call.moves[i].type = "inline"
         /\ Len(call.moves[j].marbles) = 3
         /\ call.moves[j].type = "broadside"
    /\ Cardinality(OwnCells(call.before.grid, call.color)) >= 4

\* ------------------------------------------------ play at the board edge
\* a game from the standard layout in which every move takes each of its
\* marbles over the edge; play stops when apply_move has reported a winner
EdgePlay ==
    /\ plies < MaxEdgePlies
    /\ call.returned = "None"
    /\ \E color \in {"B", "W"} : \E S \in Segments(board.grid, color) : \E d \in DirSet :
         /\ \A c \in S : ~OnBoard(Plus(c, d))
         /\ \E selected \in {sorted(CHOOSE s \in Perms(S) : TRUE)} :
              Play(selected, Plus(selected[1], d))

NextEdge == EdgePlay

SpecEdge == Init /\ [][NextEdge]_vars

\* ------------------------------------- get_best_move calls on one engine
InitCalls ==
    /\ board \in {Place(NewBoard, AIPositions[1]), Place(NewBoard, AIPositions[6])}
    /\ call = NoCall
    /\ plies = 0
    /\ \E algorithm_type \in Algorithms : \E my_color \in {"B", "W"} :
         ai = set_config(NewAI, algorithm_type, 1, TimeBudget, my_color)
    /\ run = IdleRun

\* the driver plays the move get_best_move returned and records the position;
\* the engine is then asked again
PlayBest ==
    /\ run.pc = "done"
    /\ run.result # NoMove
    /\ plies < MaxEnginePlies
    /\ board' = apply_move(board, run.result)
    /\ ai' = update_history(ai, apply_move(board, run.result))
    /\ call' = [NoCall EXCEPT !.op = "apply_move", !.result = run.result,
                               !.before = board,
                               !.returned = Winner(apply_move(board, run.result))]
    /\ plies' = plies + 1
    /\ run' = IdleRun

NextCalls == NextAI \/ PlayBest

SpecCalls == InitCalls /\ [][NextCalls]_vars

\* ------------------------------------------- update_history on one engine
\* the boards update_history is called with
HistoryBoards == {Place(NewBoard, AIPositions[1]), init_board(NewBoard)}

InitHist ==
    /\ board = init_board(NewBoard)
    /\ call = NoCall
    /\ plies = 0
    /\ ai = NewAI
    /\ run = IdleRun

\* one call of update_history(board)
UpdateHistory ==
    /\ Len(call.pushed) < MaxHistoryCalls
    /\ \E b \in HistoryBoards :
         /\ ai' = update_history(ai, b)
         /\ call' = [NoCall EXCEPT !.op = "update_history", !.before = b,
                                    !.pushed = Append(call.pushed, board_hash(b))]
    /\ UNCHANGED <<board, plies, run>>

NextHist == UpdateHistory

SpecHist == InitHist /\ [][NextHist]_vars

\* ---------------------------------------------------------- claims C11-C20
ReturnedSigs(moves) == {Sig(moves[i]) : i \in 1..Len(moves)}

\* validate_move accepts the call and the move it returns has signature sig
AcceptedAs(b, selected, target, sig) ==
    LET m == validate_move(b.grid, selected, target)
    IN  m # NoMove /\ Sig(m) = sig

\* no legal move is missing: whatever validate_move accepts for a selection of
\* 1 to 3 marbles of the colour, in any order, and a target next to a selected
\* marble (it returns None for any other target) has its signature in sigs
NoneMissing(b, color, sigs) ==
    \A selected \in AllSelections(b.grid, color) :
        \A target \in NeighborCells(SeqSet(selected)) :
            \/ validate_move(b.grid, selected, target) = NoMove
            \/ Sig(validate_move(b.grid, selected, target)) \in sigs

\* the move is one validate_move accepts for its marbles, all of the colour,
\* selected in some order, and some target
Accepted(b, color, move) ==
    /\ SeqSet(move.marbles) \subseteq OwnCells(b.grid, color)
    /\ Cardinality(SeqSet(move.marbles)) \in 1..3
    /\ \E selected \in Perms(SeqSet(move.marbles)) :
         \E target \in NeighborCells(SeqSet(selected)) :
            AcceptedAs(b, selected, target, Sig(move))

\* C11: generator completeness. For every board and colour the signatures of
\* the moves get_all_legal_moves returns are exactly the signatures of the
\* moves validate_move accepts for some selection of 1 to 3 marbles of the
\* colour, in any order, and some target: none is missing, none is rejected.
C11_GeneratorComplete ==
    call.op = "get_all_legal_moves" =>
        /\ NoneMissing(call.before, call.color, ReturnedSigs(call.moves))
        /\ \A i \in 1..Len(call.moves) : Accepted(call.before, call.color, call.moves[i])

\* the call returned a push and a broadside move of two marbles, and each is
\* a move the validator accepts
C11_Witness ==
    /\ call.op = "get_all_legal_moves"
    /\ \E i, j \in 1..Len(call.moves) :
         /\ call.moves[i].push_opponent # <<>>
         /\ Accepted(call.before, call.color, call.moves[i])
         /\ call.moves[j].type = "broadside"
         /\ Len(call.moves[j].marbles) = 2
         /\ Accepted(call.before, call.color, call.moves[j])

\* a get_all_legal_moves call on the standard starting position
StandardCall(c) == c.op = "get_all_legal_moves" /\ c.before = init_board(NewBoard)

\* the move carries a type, a direction and a list of marbles of the colour
WellFormedMove(m, b, color) ==
    /\ m.type \in {"inline", "broadside"}
    /\ m.dir \in DirSet
    /\ m.marbles # <<>>
    /\ SeqSet(m.marbles) \subseteq OwnCells(b.grid, color)

C12_Step ==
    StandardCall(call') =>
        /\ call'.moves # <<>>
        /\ \A i \in 1..Len(call'.moves) :
             WellFormedMove(call'.moves[i], call'.before, call'.color)
        /\ (StandardCall(call) /\ call.color = call'.color) =>
             /\ SeqSet(call'.moves) = SeqSet(call.moves)
             /\ Len(call'.moves) = Len(call.moves)

C13_BudgetIsDeadline ==
    /\ \A d \in 1..Len(run.log) : ~run.log[d].over_budget
    /\ ai.time_limit = TimeBudget

\* the last n entries of s, all of s when it has fewer
LastOf(s, n) == IF Len(s) <= n THEN s ELSE SubSeq(s, Len(s) - n + 1, Len(s))

\* C14: repetition window. After any sequence of update_history calls the
\* engine's position_history holds at most 6 entries, and they are the hashes
\* of the boards of the most recent calls, in call order.
C14_RepetitionWindow ==
    /\ Len(ai.position_history) <= 6
    /\ ai.position_history = LastOf(call.pushed, 6)

\* more than six calls were made, the oldest hash has been dropped and it
\* differs from the oldest one held
C14_Witness ==
    /\ Len(call.pushed) = MaxHistoryCalls
    /\ Len(ai.position_history) = 6
    /\ call.pushed[1] # ai.position_history[1]
    /\ ai.position_history[6] # ai.position_history[5]

C15_WitnessBlack ==
    /\ call.op = "apply_move"
    /\ call.before.black_score < 6
    /\ board.black_score = 6
    /\ call.returned = "Black"

\* C16: score range. In every state reached from the standard layout by
\* validated moves, play stopping once apply_move has reported a winner,
\* black_score and white_score are each within 0..6.
C16_ScoreRange ==
    /\ board.black_score \in 0..6
    /\ board.white_score \in 0..6

\* the direction of the move: from the first selected marble, in input order,
\* that has the target as a neighbour, to the target
MoveDir(selected, target) ==
    LET next(i) == Minus(target, selected[i]) \in DirSet
    IN  Minus(target, selected[CHOOSE i \in 1..Len(selected) :
                                   next(i) /\ \A j \in 1..(i - 1) : ~next(j)])

\* the cells of S are a straight line that runs along d or against it
AlongLine(S, d) == \E c \in S : S = Behind(c, d, Cardinality(S))

\* the call moves a line of 2 or 3 marbles in a direction across the line
BroadsideCase(c) ==
    /\ c.op # "none"
    /\ Len(c.selected) \in 2..3
    /\ Cardinality(SeqSet(c.selected)) = Len(c.selected)
    /\ StraightLine(SeqSet(c.selected))
    /\ Adjacent(c.target, SeqSet(c.selected))
    /\ ~AlongLine(SeqSet(c.selected), MoveDir(c.selected, c.target))

\* a cell a selected marble would step onto holds a marble
Blocked(c) ==
    \E x \in SeqSet(c.selected) :
        Plus(x, MoveDir(c.selected, c.target)) \in DOMAIN c.before.grid

\* C19: broadside moves never push. For 2 or 3 selected marbles in a line and
\* a move direction that is neither the line's nor its opposite, validate_move
\* returns a broadside move of the selected marbles with an empty push list
\* when every destination cell is unoccupied, and None when a destination
\* cell holds a marble of either colour.
C19_BroadsideNeverPushes ==
    BroadsideCase(call) =>
        IF Blocked(call) THEN call.result = NoMove
        ELSE /\ call.result # NoMove
             /\ call.result.type = "broadside"
             /\ call.result.dir = MoveDir(call.selected, call.target)
             /\ SeqSet(call.result.marbles) = SeqSet(call.selected)
             /\ Len(call.result.marbles) = Len(call.selected)
             /\ call.result.push_opponent = <<>>

\* a broadside step onto a cell that holds an opposing marble, and nothing
\* else, was rejected
C19_Witness ==
    /\ BroadsideCase(call)
    /\ call.result = NoMove
    /\ \A x \in SeqSet(call.selected) :
         LET dest == Plus(x, MoveDir(call.selected, call.target))
         IN  dest \in DOMAIN call.before.grid =>
                call.before.grid[dest] # call.before.grid[x]
    /\ Blocked(call)

\* a broadside step of three marbles onto unoccupied cells was accepted
C19_WitnessMoved ==
    /\ BroadsideCase(call)
    /\ Len(call.selected) = 3
    /\ call.result # NoMove
    /\ call.result.type = "broadside"

\* the call moves one marble, or a line of 2 or 3 along the line
InlineCase(c) ==
    /\ c.op # "none"
    /\ Len(c.selected) \in 1..3
    /\ Cardinality(SeqSet(c.selected)) = Len(c.selected)
    /\ Adjacent(c.target, SeqSet(c.selected))
    /\ \/ Len(c.selected) = 1
       \/ /\ StraightLine(SeqSet(c.selected))
          /\ AlongLine(SeqSet(c.selected), MoveDir(c.selected, c.target))

\* C20: in-line chain. Every in-line move validate_move returns lists exactly
\* the selected marbles, the head (the marble next to the target) first and
\* each following marble one step behind the one before it, against the move
\* direction; when a selected marble is not in that chain behind the head the
\* result is None.
C20_InlineChain ==
    /\ (call.op # "none" /\ call.result # NoMove /\ call.result.type = "inline") =>
         /\ Len(call.result.marbles) = Len(call.selected)
         /\ SeqSet(call.result.marbles) = SeqSet(call.selected)
         /\ Plus(call.result.marbles[1], call.result.dir) = call.target
         /\ \A i \in 2..Len(call.result.marbles) :
              call.result.marbles[i] = Minus(call.result.marbles[i - 1], call.result.dir)
    /\ (/\ InlineCase(call)
        /\ SeqSet(call.selected) #
              Behind(Minus(call.target, MoveDir(call.selected, call.target)),
                     MoveDir(call.selected, call.target), Len(call.selected)))
       => call.result = NoMove

\* three marbles picked tail first were returned head first
C20_Witness ==
    /\ call.op = "apply_move"
    /\ call.result.type = "inline"
    /\ Len(call.selected) = 3
    /\ call.selected[1] # call.result.marbles[1]
    /\ call.result.marbles[1] = Minus(call.target, call.result.dir)

\* a line moved along itself from its middle marble was rejected
C20_WitnessGap ==
    /\ InlineCase(call)
    /\ Len(call.selected) = 3
    /\ SeqSet(call.selected) #
          Behind(Minus(call.target, MoveDir(call.selected, call.target)),
                 MoveDir(call.selected, call.target), 3)
    /\ call.result = NoMove

\* C17: an ID Minimax search with a legal move available does not return
\* before the clock has passed the time limit: its deepening loop is left
\* through a time check only, and when depth 1 was completed in time a move is
\* returned, with current_depth >= 1 and nodes_explored >= 1 in the metrics.
C17_IdsRunsToTheLimit ==
    (/\ run.pc = "done"
     /\ ai.algorithm_type = "ID Minimax"
     /\ HasLegalMove(run.board0, ai.my_color))
    => /\ run.left_by = "time"
       /\ Late(ai, run) \/ run.current_depth > MaxDepth
       /\ (Len(run.log) >= 1 /\ run.log[1].kept /\ ~run.log[1].late) =>
            /\ run.result # NoMove
            /\ ai.current_depth >= 1
            /\ ai.nodes_explored >= 1

\* the clock passed the limit among the root moves of depth 2 and the move of
\* depth 1 was returned
C17_Witness ==
    /\ run.pc = "done"
    /\ ai.algorithm_type = "ID Minimax"
    /\ run.deadline # NoDeadline
    /\ run.left_by = "time"
    /\ Len(run.log) = 2
    /\ run.log[1].kept
    /\ run.result # NoMove
    /\ ai.current_depth = 2
    /\ ai.nodes_explored >= run.deadline

\* every metric is zero or empty (execution_time is written when the call
\* returns)
MetricsReset(a) ==
    /\ a.nodes_explored = 0
    /\ a.cutoffs = 0
    /\ a.cache_hits = 0
    /\ a.current_depth = 0
    /\ a.depth_history = <<>>
    /\ a.time_elapsed = 0
    /\ a.last_move_breakdown = NoBreakdown
    /\ a.score = <<>>

\* the metrics tell of the call in frame r only: depth_history lists the
\* depths this call completed, current_depth is a depth this call started,
\* and nothing is counted when this call searched nothing
PerCall(a, r) ==
    /\ Len(a.depth_history) = Cardinality({d \in 1..Len(r.log) : r.log[d].kept})
    /\ \A k \in 1..Len(a.depth_history) : a.depth_history[k][1] = k
    /\ a.current_depth <= r.current_depth
    /\ (\A d \in 1..Len(r.log) : r.log[d].searched = 0) =>
         a.nodes_explored = 0 /\ a.cutoffs = 0 /\ a.cache_hits = 0

C18_Step ==
    /\ (run.pc = "idle" /\ run'.pc # "idle") =>
         /\ MetricsReset(ai')
         /\ run'.pc # "done" => ai'.execution_time = 0
    /\ run'.pc # "idle" => PerCall(ai', run')

\* C18: metrics are per call. At the start of every get_best_move call nodes
\* explored, cutoffs, cache hits, current depth, depth history, elapsed time
\* and the last evaluation breakdown are zero or empty, and what they hold
\* during and after the call comes from that call alone.
C18_MetricsPerCall == [][C18_Step]_vars

\* a second call on the same engine has returned with one depth in its
\* history, after a first call had left metrics behind
C18_Witness ==
    /\ plies = 1
    /\ run.pc = "done"
    /\ ai.algorithm_type \in Deepening
    /\ Len(ai.depth_history) = 1
    /\ Len(run.log) = 2
    /\ ai.nodes_explored > 0
    /\ ai.transposition_table # <<>>

\* ------------------------------------------- init_board on the live board
\* Board(): nothing has been placed yet
InitNew ==
    /\ board = NewBoard
    /\ call = NoCall
    /\ plies = 0
    /\ ai = NewAI
    /\ run = IdleRun

\* game_board.init_board(), as the driver calls it when a local game starts:
\* on the new board, or on the board of the game that was left
InitBoard ==
    /\ board' = init_board(board)
    /\ call' = [NoCall EXCEPT !.op = "init_board", !.before = board]
    /\ UNCHANGED <<plies, ai, run>>

NextSetup == InitBoard \/ EdgePlay

SpecSetup == InitNew /\ [][NextSetup]_vars

\* ------------------------------------------------ Greedy on one position
\* the time_limit test_ai_engine.py configures Greedy with, in seconds
TestBudget == 1

\* the positions Greedy is asked about
GreedyBoards == {Place(NewBoard, AIPositions[k]) : k \in {1, 2, 3, 6}}

\* position_history when the call is made: nothing yet, or an earlier
\* position of the game that one move of color leads back to (the drivers
\* call update_history after every move of either side)
GreedyHistories(b, color) ==
    {<<>>} \cup
    {<<board_hash(apply_move(b, get_all_legal_moves(b, color)[k]))>> :
        k \in 1..Len(get_all_legal_moves(b, color))}

InitGreedy ==
    /\ board \in GreedyBoards
    /\ call = NoCall
    /\ plies = 0
    /\ \E my_color \in {"B", "W"} : \E time_limit \in {TestBudget, TimeBudget} :
         \E history \in GreedyHistories(board, my_color) :
            ai = [set_config(NewAI, "Greedy", 1, time_limit, my_color)
                    EXCEPT !.position_history = history]
    /\ run = IdleRun

NextGreedy == GetBestMove \/ GreedyStep \/ GreedyReturn

SpecGreedy == InitGreedy /\ [][NextGreedy]_vars

\* ------------------------------------------- minimax_ab calls on one engine
\* the positions searched: two against one in mid-board and at the edge, and
\* one against two at the edge
AbBoards == {Place(NewBoard, AIPositions[k]) : k \in {1, 2, 5}}

\* the (alpha, beta) pairs minimax_ab is called with: the full window of the
\* first root move, and windows that end near the position's evaluation, as
\* the values of the moves searched before leave them
Windows(b, a) ==
    LET s == evaluate(b, a.my_color, NoMove, a.my_color, a.weights)
    IN  {NegInf, s - WindowMargin, s} \X {s + WindowMargin, PosInf}

InitAb ==
    /\ board \in AbBoards
    /\ call = NoCall
    /\ plies = 0
    /\ \E my_color \in {"B", "W"} : ai = set_config(NewAI, "Minimax+ABP", 1, TimeBudget, my_color)
    /\ run = IdleRun

\* one minimax_ab call on the position, on the transposition table the calls
\* before have left, the clock never past the limit
SearchAb ==
    /\ call.nth < MaxAbCalls
    /\ \E depth \in 0..MaxAbDepth : \E maximizing_player \in BOOLEAN :
         \E w \in Windows(board, ai) :
         \E r \in {minimax_ab(board, depth, w[1], w[2], maximizing_player, NoMove,
                              StOf(ai), CfgOf(ai, NoDeadline))} :
            /\ ai' = WithSt(ai, r.st)
            /\ call' = [NoCall EXCEPT !.op = "minimax_ab", !.before = board,
                                       !.color = ai.my_color, !.depth = depth,
                                       !.maximizing_player = maximizing_player,
                                       !.alpha = w[1], !.beta = w[2],
                                       !.ab_score = r.score,
                                       !.table = ai.transposition_table,
                                       !.nth = call.nth + 1]
    /\ UNCHANGED <<board, plies, run>>

NextAb == SearchAb

SpecAb == InitAb /\ [][NextAb]_vars

\* ----------------------------------- get_best_move, the call keeps running
\* the interpreter goes on executing a call that has not returned: the call
\* takes step after step unless it has returned.  Every state of a call in
\* progress has its step (idle: GetBestMove; greedy: GreedyStep or
\* GreedyReturn; while: WhileTimeout, DepthStart or NoMovesBreak; root:
\* RootSearch, RootTimeout or DepthComplete), so this is weak fairness of
\* NextAI with its enabling condition written as run.pc # "done"
Running == []<>(run.pc = "done") \/ []<><<NextAI>>_vars

SpecLive == InitAI /\ [][NextAI]_vars /\ Running

\* ------------------------------------- quiescence_search calls on one engine
\* q_depth of quiescence_search when minimax_ab calls it
QDepth == 2

\* two against one, with two opposing marbles in line with the cell the
\* pushing pair arrives on: a push that the opponent answers with a push
ExchangePosition ==
    << <<<<0, 0>>, "B">>, <<<<1, 0>>, "B">>, <<<<2, 0>>, "W">>, <<<<3, -1>>, "W">>,
       <<<<4, -2>>, "W">> >>

\* the positions searched: two against one at the edge, a board of one
\* colour, and the exchange of pushes
QsBoards == {Place(NewBoard, AIPositions[k]) : k \in {2, 6}}
               \cup {Place(NewBoard, ExchangePosition)}

\* the (alpha, beta) pairs quiescence_search is called with: minimax_ab hands
\* down the window its loop holds, which may lie on either side of the
\* position's evaluation
QsWindows(b, a) ==
    LET s == evaluate(b, a.my_color, NoMove, a.my_color, a.weights)
    IN  {w \in {NegInf, s - WindowMargin, s + WindowMargin}
                 \X {s - WindowMargin, s + WindowMargin, PosInf} : w[1] < w[2]}

InitQs ==
    /\ board \in QsBoards
    /\ call = NoCall
    /\ plies = 0
    /\ \E my_color \in {"B", "W"} : ai = set_config(NewAI, "Minimax+ABP", 1, TimeBudget, my_color)
    /\ run = IdleRun

\* one quiescence_search call on the position: from minimax_ab (q_depth 2) or
\* from quiescence_search itself (q_depth 1 and 0)
Quiesce ==
    /\ call.nth < MaxQsCalls
    /\ \E q_depth \in 0..QDepth : \E maximizing_player \in BOOLEAN :
         \E w \in QsWindows(board, ai) :
         \E r \in {quiescence_search(board, w[1], w[2], maximizing_player, q_depth,
                                     StOf(ai), CfgOf(ai, NoDeadline))} :
            /\ ai' = WithSt(ai, r.st)
            /\ call' = [NoCall EXCEPT !.op = "quiescence_search", !.before = board,
                                       !.color = ai.my_color, !.depth = q_depth,
                                       !.maximizing_player = maximizing_player,
                                       !.alpha = w[1], !.beta = w[2],
                                       !.ab_score = r.score,
                                       !.nth = call.nth + 1]
    /\ UNCHANGED <<board, plies, run>>

NextQs == Quiesce

SpecQs == InitQs /\ [][NextQs]_vars

\* ---------------------------------------------------- get_ordered_moves calls
\* the positions ordered: those of get_all_legal_moves and the row positions
InitOrder ==
    /\ board \in ((ClusterBoards \cup AIBoards) \cup {init_board(NewBoard)}) \cup SynBoards
    /\ call = NoCall
    /\ plies = 0
    /\ ai = NewAI
    /\ run = IdleRun

\* one call of get_ordered_moves(board, color)
Order ==
    /\ call.op = "none"
    /\ \E color \in {"B", "W"} :
         call' = [NoCall EXCEPT !.op = "get_ordered_moves", !.color = color,
                                !.before = board, !.nth = 1,
                                !.moves = get_ordered_moves(board, color)]
    /\ UNCHANGED <<board, plies, ai, run>>

NextOrder == Order

SpecOrder == InitOrder /\ [][NextOrder]_vars

\* --------------------------------------- minimax_ab calls against the clock
\* nodes_explored when the call is made: the nodes the get_best_move call in
\* progress has explored so far, close to the next time check
TimedStarts == (CheckEvery - MaxTimedLead)..(CheckEvery - 1)

InitTimed ==
    /\ board \in AbBoards
    /\ call = NoCall
    /\ plies = 0
    /\ \E my_color \in {"B", "W"} : \E nodes \in TimedStarts :
         ai = [set_config(NewAI, "Minimax+ABP", 1, TimeBudget, my_color)
                  EXCEPT !.nodes_explored = nodes]
    /\ run = IdleRun

\* one minimax_ab call on the position: the time limit has passed when the
\* next time check is made, or does not pass during the call
SearchTimed ==
    /\ call.nth < MaxTimedCalls
    /\ \E depth \in 1..MaxAbDepth : \E maximizing_player \in BOOLEAN :
         \E deadline \in {CheckEvery, NoDeadline} :
         \E r \in {minimax_ab(board, depth, NegInf, PosInf, maximizing_player, NoMove,
                              StOf(ai), CfgOf(ai, deadline))} :
            /\ ai' = WithSt(ai, r.st)
            /\ call' = [NoCall EXCEPT !.op = "minimax_ab", !.before = board,
                                       !.color = ai.my_color, !.depth = depth,
                                       !.maximizing_player = maximizing_player,
                                       !.alpha = NegInf, !.beta = PosInf,
                                       !.ab_score = r.score,
                                       !.table = ai.transposition_table,
                                       !.aborted = r.st.aborted,
                                       !.nth = call.nth + 1]
    /\ UNCHANGED <<board, plies, run>>

NextTimed == SearchTimed

SpecTimed == InitTimed /\ [][NextTimed]_vars

\* ------------------------- get_all_legal_moves calls, row positions included
NextRows == Generate

SpecRows == InitOrder /\ [][NextRows]_vars

\* ------------------------------------ validate_move on a board with a selection
\* the positions clicked on: those searched and the exchange of pushes
ClickBoards == AIBoards \cup {Place(NewBoard, ExchangePosition)}

\* the cells a click or a target falls on: the marbles and the cells around
\* them, on the valid board or not
ClickCells(b) == DOMAIN b.grid \cup NeighborCells(DOMAIN b.grid)

\* a board whose selection holds up to three marbles of one colour, as clicks
\* have left it
InitValidate ==
    /\ \E b \in ClickBoards : \E color \in {"B", "W"} :
         \E s \in AllSelections(b.grid, color) \cup {<<>>} :
            board = [b EXCEPT !.selected = s]
    /\ call = NoCall
    /\ plies = 0
    /\ ai = NewAI
    /\ run = IdleRun

\* validate_move that sorts the list it is given in place
Validate_SortsSelection ==
    /\ call.op = "none"
    /\ \E target \in ClickCells(board) :
         call' = [NoCall EXCEPT !.op = "validate_move", !.selected = board.selected,
                                !.target = target, !.before = board,
                                !.result = validate_move(board.grid, board.selected, target)]
    /\ board' = [board EXCEPT !.selected = sorted(@)]
    /\ UNCHANGED <<plies, ai, run>>

\* one call validate_move(self.selected, q, r): the method reads self.grid and
\* the list it is given, and assigns nothing
Validate ==
    /\ call.op = "none"
    /\ \E target \in ClickCells(board) :
         call' = [NoCall EXCEPT !.op = "validate_move", !.selected = board.selected,
                                !.target = target, !.before = board,
                                !.result = validate_move(board.grid, board.selected, target)]
    /\ UNCHANGED <<board, plies, ai, run>>

NextValidate == Validate

SpecValidate == InitValidate /\ [][NextValidate]_vars

\* ----------------------------------------------- handle_click calls on a board
InitClick ==
    /\ board \in ClickBoards
    /\ call = NoCall
    /\ plies = 0
    /\ ai = NewAI
    /\ run = IdleRun

\* the colour whose turn it is: either on the first click, the other colour
\* after a click that made a move, else the same
Turns ==
    IF call.op = "none" THEN {"B", "W"}
    ELSE IF call.returned = "True" THEN {Opp(call.color)}
    ELSE {call.color}

\* one call handle_click(q, r, current_turn_color)
Click ==
    /\ plies < MaxClicks
    /\ \E current_turn_color \in Turns : \E c \in ClickCells(board) :
         \E r \in {handle_click(board, c, current_turn_color)} :
            /\ board' = r.board
            /\ call' = [NoCall EXCEPT !.op = "handle_click", !.target = c,
                                       !.color = current_turn_color,
                                       !.selected = board.selected,
                                       !.before = board, !.result = r.move_data,
                                       !.returned = IF r.returned THEN "True"
                                                    ELSE "False"]
    /\ plies' = plies + 1
    /\ UNCHANGED <<ai, run>>

NextClick == Click

SpecClick == InitClick /\ [][NextClick]_vars

\* ------------------------------ minimax_ab calls before and after set_config
\* one minimax_ab call on the position with the full window, on the
\* transposition table the engine holds
SearchConfigured ==
    /\ call.op \in {"none", "set_config"}
    /\ call.nth < MaxConfigCalls
    /\ \E depth \in 1..MaxAbDepth : \E maximizing_player \in BOOLEAN :
         \E r \in {minimax_ab(board, depth, NegInf, PosInf, maximizing_player, NoMove,
                              StOf(ai), CfgOf(ai, NoDeadline))} :
            /\ ai' = WithSt(ai, r.st)
            /\ call' = [NoCall EXCEPT !.op = "minimax_ab", !.before = board,
                                       !.color = ai.my_color, !.depth = depth,
                                       !.maximizing_player = maximizing_player,
                                       !.alpha = NegInf, !.beta = PosInf,
                                       !.ab_score = r.score,
                                       !.table = ai.transposition_table,
                                       !.stored_by = call.stored_by,
                                       !.nth = call.nth + 1]
    /\ UNCHANGED <<board, plies, run>>

\* set_config(algorithm_type, max_depth, time_limit, my_color) on the engine
\* that has searched: a new game is configured on the same AbaloneAI object
SetConfig ==
    /\ call.op = "minimax_ab"
    /\ call.nth < MaxConfigCalls
    /\ \E my_color \in {"B", "W"} :
         ai' = set_config(ai, "Minimax+ABP", 1, TimeBudget, my_color)
    /\ call' = [call EXCEPT !.op = "set_config", !.stored_by = ai.my_color]
    /\ UNCHANGED <<board, plies, run>>

NextConfig == SearchConfigured \/ SetConfig

SpecConfig == InitAb /\ [][NextConfig]_vars

\* ---------------------------------------------------------- claims C21-C39
\* the call moves one marble, or a line of 2 or 3 along itself, head first
\* onto a target cell off the valid board
EdgeSelfCase(c) ==
    /\ InlineCase(c)
    /\ ~OnBoard(c.target)
    /\ SeqSet(c.selected) =
          Behind(Minus(c.target, MoveDir(c.selected, c.target)),
                 MoveDir(c.selected, c.target), Len(c.selected))

\* C21: edge self-capture. An own in-line move whose target cell is off the
\* valid board is accepted as a move with an empty push list; applying it
\* removes the head marble from the board, adds one to the opponent's score
\* and none to the mover's, and puts every other marble of the chain one cell
\* further in the move direction.
C21_EdgeSelfCapture ==
    EdgeSelfCase(call) =>
        LET m == call.result
            g == call.before.grid
            d == MoveDir(call.selected, call.target)
            head == Minus(call.target, d)
            rest == SeqSet(call.selected) \ {head}
            own == g[head]
        IN  /\ call.op = "apply_move"
            /\ m.type = "inline"
            /\ m.dir = d
            /\ m.marbles[1] = head
            /\ m.push_opponent = <<>>
            /\ DOMAIN board.grid =
                  ((DOMAIN g) \ SeqSet(call.selected)) \cup {Plus(x, d) : x \in rest}
            /\ OccupiedCount(board) = OccupiedCount(call.before) - 1
            /\ \A x \in rest : board.grid[Plus(x, d)] = own
            /\ \A x \in (DOMAIN g) \ SeqSet(call.selected) : board.grid[x] = g[x]
            /\ IF own = "B"
               THEN /\ board.white_score = call.before.white_score + 1
                    /\ board.black_score = call.before.black_score
               ELSE /\ board.black_score = call.before.black_score + 1
                    /\ board.white_score = call.before.white_score

\* a line of three has moved its head over the edge: two marbles are left,
\* one cell further, and the opponent has a point
C21_Witness ==
    /\ EdgeSelfCase(call)
    /\ call.op = "apply_move"
    /\ Len(call.selected) = 3
    /\ OccupiedCount(board) = OccupiedCount(call.before) - 1
    /\ board.white_score + board.black_score = 1

\* the cells of row r between columns lo and hi
RowCells(r, lo, hi) == {<<q, r>> : q \in lo..hi}

\* C22: standard layout. Immediately after init_board, on a fresh board or on
\* a board on which moves and captures have been played, the board holds
\* exactly 14 White and 14 Black marbles on valid cells in rows of 5, 6 and 3
\* per side, and occupied cells plus black_score plus white_score equals 28.
C22_StandardLayout ==
    call.op = "init_board" =>
        /\ OwnCells(board.grid, "W") =
              (RowCells(-4, 0, 4) \cup RowCells(-3, -1, 4)) \cup RowCells(-2, 0, 2)
        /\ OwnCells(board.grid, "B") =
              (RowCells(4, -4, 0) \cup RowCells(3, -4, 1)) \cup RowCells(2, -2, 0)
        /\ Cardinality(OwnCells(board.grid, "W")) = 14
        /\ Cardinality(OwnCells(board.grid, "B")) = 14
        /\ \A c \in DOMAIN board.grid : OnBoard(c)
        /\ OccupiedCount(board) + board.black_score + board.white_score = 28

\* the evaluation of the position after move m, from the engine's side
AfterMove(b, a, m) == evaluate(apply_move(b, m), a.my_color, m, a.my_color, a.weights)

\* the position after move m is in the repetition history
Repeats(b, a, m) == board_hash(apply_move(b, m)) \in SeqSet(a.position_history)

\* the score Greedy gives move m
GreedyScore(b, a, m) == AfterMove(b, a, m) - (IF Repeats(b, a, m) THEN 5000 ELSE 0)

\* C23: Greedy choice. With at least one legal move Greedy returns a move,
\* whatever the time budget: the first move in generation order whose score
\* is maximal, the score being the evaluation of the position after the move
\* from the engine's side, minus 5000 if that position is in the repetition
\* history.
C23_GreedyChoice ==
    (/\ run.pc = "done"
     /\ ai.algorithm_type = "Greedy"
     /\ get_all_legal_moves(run.board0, ai.my_color) # <<>>)
    => \E moves \in {get_all_legal_moves(run.board0, ai.my_color)} :
         /\ run.result # NoMove
         /\ \E k \in 1..Len(moves) :
              /\ run.result = moves[k]
              /\ \A j \in 1..Len(moves) :
                   GreedyScore(run.board0, ai, moves[j]) <= GreedyScore(run.board0, ai, moves[k])
              /\ \A j \in 1..(k - 1) :
                   GreedyScore(run.board0, ai, moves[j]) < GreedyScore(run.board0, ai, moves[k])

\* Greedy has returned a move that is not the best by evaluation alone: the
\* move with the greater evaluation leads to a position of the history
C23_Witness ==
    /\ run.pc = "done"
    /\ ai.algorithm_type = "Greedy"
    /\ run.result # NoMove
    /\ \E moves \in {get_all_legal_moves(run.board0, ai.my_color)} :
         \E j \in 1..Len(moves) :
            /\ Repeats(run.board0, ai, moves[j])
            /\ AfterMove(run.board0, ai, moves[j]) > AfterMove(run.board0, ai, run.result)

\* Greedy has returned the first of several moves of equal, maximal score,
\* with the shorter of the two time budgets
C23_WitnessTie ==
    /\ run.pc = "done"
    /\ ai.algorithm_type = "Greedy"
    /\ ai.time_limit = TestBudget
    /\ run.result # NoMove
    /\ \E moves \in {get_all_legal_moves(run.board0, ai.my_color)} :
         \E k, j \in 1..Len(moves) :
            /\ k < j
            /\ run.result = moves[k]
            /\ GreedyScore(run.board0, ai, moves[j]) = GreedyScore(run.board0, ai, moves[k])

\* the transposition key of the node call c searched
RootKey(c) == state_key(c.before, c.maximizing_player)

\* call c has stored the entry of its node: the table holds an entry of the
\* call's depth under the node's key that it did not hold before
StoredEntry(c, a) ==
    /\ c.op = "minimax_ab"
    /\ RootKey(c) \in DOMAIN a.transposition_table
    /\ a.transposition_table[RootKey(c)].depth = c.depth
    /\ \/ RootKey(c) \notin DOMAIN c.table
       \/ c.table[RootKey(c)] # a.transposition_table[RootKey(c)]

\* C24: bound tagging. Whenever minimax_ab stores a transposition entry, its
\* bound kind is 'exact' if the node's final value lies strictly between the
\* alpha and beta the node was called with, 'upper' if the value is at or
\* below that alpha, and 'lower' if it is at or above that beta.
C24_BoundTagging ==
    StoredEntry(call, ai) =>
        LET entry == ai.transposition_table[RootKey(call)]
        IN  /\ entry.score = call.ab_score
            /\ (call.alpha < entry.score /\ entry.score < call.beta) => entry.flag = "exact"
            /\ entry.score <= call.alpha => entry.flag = "upper"
            /\ entry.score >= call.beta => entry.flag = "lower"

\* C25: depth bound. Iterative deepening (ID Minimax and Minimax+ABP) never
\* starts a depth greater than the depth bound passed to set_config as
\* max_depth.
C25_DepthBound ==
    ai.algorithm_type \in Deepening =>
        /\ Len(run.log) <= ai.max_depth
        /\ run.pc \in {"root", "while"} => ai.current_depth <= ai.max_depth

\* the deepening loop is at a depth: before its time check or in its root loop
InLoop(r) == r.pc \in {"while", "root"}

\* one step of the state machine of a search call
C26_Step ==
    /\ (run.pc = "idle" /\ run'.pc # "idle") =>
         \/ run'.pc = "while" /\ run'.current_depth = 1
         \/ run'.pc = "greedy"
         \/ run'.pc = "done"
    /\ (run.pc = "while" /\ run' # run) =>
         \/ run'.pc = "root" /\ run'.current_depth = run.current_depth
         \/ /\ run'.pc = "done"
            /\ run'.left_by \in {"time", "no_moves"}
            /\ run'.result = run.final_best_move
    /\ (run.pc = "root" /\ run' # run) =>
         \/ /\ run'.pc = "root"
            /\ run'.current_depth = run.current_depth
            /\ run'.i = run.i + 1
         \/ /\ run'.pc = "while"
            /\ run'.current_depth = run.current_depth + 1
            /\ run.i > Len(run.moves)
            /\ run'.log[Len(run.log)].kept
         \/ /\ run'.pc = "done"
            /\ run'.left_by = "time"
            /\ run'.result = run.final_best_move
    /\ run.pc = "done" => run'.pc \in {"done", "idle"}

C26_WitnessNoMoves ==
    /\ run.pc = "done"
    /\ run.left_by = "no_moves"
    /\ run.result = NoMove

\* table without the entry under key
Without(table, key) == [k \in (DOMAIN table) \ {key} |-> table[k]]

\* the value of the search call c made with the window (alpha, beta) and
\* without an entry for its own node in the table
Unaided(c, a, alpha, beta) ==
    minimax_ab(c.before, c.depth, alpha, beta, c.maximizing_player, NoMove,
               [StOf(a) EXCEPT !.tt = Without(c.table, RootKey(c))],
               CfgOf(a, NoDeadline)).score

\* the table the call found holds an entry for the call's node
Cached(c) == c.op = "minimax_ab" /\ RootKey(c) \in DOMAIN c.table

\* the entry is at least as deep as the call
Trusted(c) == Cached(c) /\ c.table[RootKey(c)].depth >= c.depth

\* C27: cached results are trusted only when deep enough. In minimax_ab an
\* entry whose stored depth is smaller than the node's remaining depth changes
\* neither the returned value nor the window; an entry with stored depth >=
\* remaining depth returns its score at once when exact, raises alpha when it
\* is a lower bound, lowers beta when it is an upper bound, and returns its
\* score when the window closes (alpha >= beta).
C27_TrustDeepEntries ==
    Cached(call) =>
        LET entry == call.table[RootKey(call)]
            alpha == IF entry.flag = "lower" THEN Max2(call.alpha, entry.score)
                     ELSE call.alpha
            beta == IF entry.flag = "upper" THEN Min2(call.beta, entry.score)
                    ELSE call.beta
            at_once == /\ call.ab_score = entry.score
                       /\ ai.transposition_table = call.table
        IN  IF ~Trusted(call)
            THEN call.ab_score = Unaided(call, ai, call.alpha, call.beta)
            ELSE IF entry.flag = "exact" THEN at_once
            ELSE IF alpha >= beta THEN at_once
            ELSE call.ab_score = Unaided(call, ai, alpha, beta)

\* a deeper call has found the entry of a shallower one and searched on
C27_Witness ==
    /\ Cached(call)
    /\ ~Trusted(call)
    /\ call.depth = 2
    /\ call.table[RootKey(call)].depth = 1
    /\ call.ab_score # call.table[RootKey(call)].score

\* an entry deep enough has closed the window and its score was returned
C27_WitnessClosed ==
    /\ Trusted(call)
    /\ call.table[RootKey(call)].flag = "upper"
    /\ call.table[RootKey(call)].score <= call.alpha
    /\ call.ab_score = call.table[RootKey(call)].score
    /\ ai.transposition_table = call.table

\* an entry deep enough has narrowed the window and the node was searched
C27_WitnessNarrowed ==
    /\ Trusted(call)
    /\ call.table[RootKey(call)].flag = "lower"
    /\ call.table[RootKey(call)].score > call.alpha
    /\ call.table[RootKey(call)].score < call.beta

\* the push moves the side to move has on board b
PushMoves(b, color) ==
    SelectSeq(get_all_legal_moves(b, color), LAMBDA m : m.push_opponent # <<>>)

\* the nodes of the tree of push moves below b, d plies deep
RECURSIVE PushTree(_, _, _)
PushTree(b, color, d) ==
    IF d = 0 THEN 1
    ELSE LET ms == PushMoves(b, color)
             below == [i \in 1..Len(ms) |-> PushTree(apply_move(b, ms[i]), Opp(color), d - 1)]
         IN  1 + SumOver(below, 1..Len(ms))

\* the side to move in the quiescence_search call recorded
QsMover(c) == IF c.maximizing_player THEN c.color ELSE Opp(c.color)

\* the static evaluation of the position of the call recorded
QsStandPat(c) ==
    evaluate(c.before, c.color, NoMove, c.color, WeightsOf("Minimax+ABP"))

\* the static evaluation as stand-pat pruning returns it: the bound of the
\* window it has reached or crossed, else itself
QsCutOff(c) ==
    IF c.maximizing_player /\ QsStandPat(c) >= c.beta THEN c.beta
    ELSE IF ~c.maximizing_player /\ QsStandPat(c) <= c.alpha THEN c.alpha
    ELSE QsStandPat(c)

\* C28 as stated: a quiescence_search call visits no more nodes than the tree
\* of push moves q_depth plies deep below its position has, and with no push
\* move available it returns the static evaluation
C28_Step ==
    call'.op = "quiescence_search" =>
        /\ ai'.nodes_explored - ai.nodes_explored >= 1
        /\ ai'.nodes_explored - ai.nodes_explored
              <= PushTree(board, QsMover(call'), call'.depth)
        /\ PushMoves(board, QsMover(call')) = <<>> => call'.ab_score = QsStandPat(call')

C28_StepCutOff ==
    call'.op = "quiescence_search" =>
        /\ ai'.nodes_explored - ai.nodes_explored >= 1
        /\ ai'.nodes_explored - ai.nodes_explored
              <= PushTree(board, QsMover(call'), call'.depth)
        /\ PushMoves(board, QsMover(call')) = <<>> => call'.ab_score = QsCutOff(call')

C28_WitnessLimit ==
    /\ call.op = "quiescence_search"
    /\ call.nth = 1
    /\ call.depth = 0
    /\ PushMoves(call.before, QsMover(call)) # <<>>
    /\ ai.nodes_explored = 1
    /\ call.ab_score = QsStandPat(call)

\* a call without push moves that returns a bound of its window
C28_WitnessCutOff ==
    /\ call.op = "quiescence_search"
    /\ PushMoves(call.before, QsMover(call)) = <<>>
    /\ call.ab_score # QsStandPat(call)
    /\ call.ab_score = QsCutOff(call)

\* a call without push moves that returns the static evaluation
C28_WitnessStatic ==
    /\ call.op = "quiescence_search"
    /\ call.depth > 0
    /\ PushMoves(call.before, QsMover(call)) = <<>>
    /\ QsStandPat(call) > call.alpha
    /\ QsStandPat(call) < call.beta
    /\ call.ab_score = QsStandPat(call)

\* how many times move m occurs in the list s
Occurrences(s, m) == Cardinality({i \in 1..Len(s) : s[i] = m})

\* C29: get_ordered_moves returns the moves of get_all_legal_moves, each as
\* often as it is generated, every push move before every non-push move and
\* the push moves in non-increasing order of the number of marbles pushed
C29_MoveOrdering ==
    call.op = "get_ordered_moves" =>
        LET ordered == call.moves
            legal == get_all_legal_moves(call.before, call.color)
        IN  /\ Len(ordered) = Len(legal)
            /\ \A i \in 1..Len(legal) :
                  Occurrences(ordered, legal[i]) = Occurrences(legal, legal[i])
            /\ \A i \in 1..Len(ordered) : \A j \in (i + 1)..Len(ordered) :
                  /\ ordered[j].push_opponent # <<>> => ordered[i].push_opponent # <<>>
                  /\ Len(ordered[i].push_opponent) >= Len(ordered[j].push_opponent)

\* a list with pushes of one and of two marbles and a move that pushes
\* nothing, which the generator returns in another order
C29_Witness ==
    /\ call.op = "get_ordered_moves"
    /\ \E i, j, k \in 1..Len(call.moves) :
          /\ Len(call.moves[i].push_opponent) = 2
          /\ Len(call.moves[j].push_opponent) = 1
          /\ call.moves[k].push_opponent = <<>>
    /\ call.moves # get_all_legal_moves(call.before, call.color)
    /\ LET legal == get_all_legal_moves(call.before, call.color)
       IN  \E i \in 1..Len(legal) : \E j \in (i + 1)..Len(legal) :
              /\ Len(legal[i].push_opponent) = 1
              /\ Len(legal[j].push_opponent) = 2

\* C30: in every state reached from the standard layout by validated moves,
\* every occupied coordinate (q, r) has max(|q|, |r|, |q + r|) <= 4
C30_OnBoardOccupancy ==
    \A c \in DOMAIN board.grid :
        Max2(Max2(Abs(c[1]), Abs(c[2])), Abs(c[1] + c[2])) <= 4

\* a move has taken a marble to a coordinate off the valid board, and that
\* coordinate is not occupied
C30_Witness ==
    /\ call.op = "apply_move"
    /\ call.result # NoMove
    /\ \E c \in SeqSet(Movers(call.result)) :
          /\ ~OnBoard(Plus(c, call.result.dir))
          /\ Plus(c, call.result.dir) \notin DOMAIN board.grid
          /\ c \in DOMAIN call.before.grid

\* the marbles of the given colour on board b
OnBoardOf(b, color) == Cardinality({c \in DOMAIN b.grid : b.grid[c] = color})

\* C31: in every state reached from the standard layout by validated moves,
\* black_score is 14 minus the White marbles on the board and white_score is
\* 14 minus the Black marbles on the board
C31_ScoresMirrorMarbles ==
    /\ board.black_score = 14 - OnBoardOf(board, "W")
    /\ board.white_score = 14 - OnBoardOf(board, "B")

\* each side has moved a marble of its own over the edge
C31_Witness ==
    /\ call.op = "apply_move"
    /\ call.result.push_opponent = <<>>
    /\ OnBoardOf(board, "W") = 13
    /\ OnBoardOf(board, "B") = 13
    /\ board.black_score = 1
    /\ board.white_score = 1

\* C32: a move get_best_move returns under Greedy, ID Minimax or Minimax+ABP
\* is a legal move of the engine's colour on the board passed in: its
\* signature is among those of get_all_legal_moves, its marbles are the
\* engine's, validate_move on the live board returns it, and the live board
\* is the board passed in
C32_ReturnedMoveLegal ==
    (/\ run.pc = "done"
     /\ ai.algorithm_type \in {"Greedy", "ID Minimax", "Minimax+ABP"}
     /\ run.result # NoMove)
    => LET m == run.result
           g == run.board0.grid
       IN  /\ Sig(m) \in ReturnedSigs(get_all_legal_moves(run.board0, ai.my_color))
           /\ \A c \in SeqSet(m.marbles) : c \in DOMAIN g /\ g[c] = ai.my_color
           /\ board = run.board0
           /\ validate_move(board.grid, m.marbles, Plus(m.marbles[1], m.dir)) = m

\* a deepening search has returned a push
C32_Witness ==
    /\ run.pc = "done"
    /\ ai.algorithm_type \in {"ID Minimax", "Minimax+ABP"}
    /\ run.result # NoMove
    /\ run.result.push_opponent # <<>>
    /\ Len(run.log) >= 1

\* Greedy has returned a move
C32_WitnessGreedy ==
    /\ run.pc = "done"
    /\ ai.algorithm_type = "Greedy"
    /\ run.result # NoMove
    /\ Len(get_all_legal_moves(run.board0, ai.my_color)) > 1

\* C33: apply_move on a validated move changes only the cells the moving and
\* pushed marbles leave and arrive on: every other cell keeps its occupant, a
\* cell left and not arrived on is unoccupied, every marble that stays on the
\* board arrives with its colour, and no marble arrives on a cell held by a
\* marble that does not move
C33_ApplyMoveLocal ==
    call.op = "apply_move" =>
        LET m == call.result
            g == call.before.grid
            after == board.grid
            movers == SeqSet(Movers(m))
            arrivals == {Plus(c, m.dir) : c \in movers}
        IN  /\ \A c \in (DOMAIN g \cup DOMAIN after) \ (movers \cup arrivals) :
                  c \in DOMAIN g /\ c \in DOMAIN after /\ after[c] = g[c]
            /\ \A c \in movers \ arrivals : c \notin DOMAIN after
            /\ \A c \in movers :
                  /\ c \in DOMAIN g
                  /\ OnBoard(Plus(c, m.dir)) =>
                        Plus(c, m.dir) \in DOMAIN after /\ after[Plus(c, m.dir)] = g[c]
            /\ arrivals \cap (DOMAIN g \ movers) = {}
            /\ \A color \in {"B", "W"} :
                  Cardinality({c \in DOMAIN after : after[c] = color})
                     = Cardinality({c \in DOMAIN g : g[c] = color})
                          - Cardinality({c \in movers : g[c] = color
                                                        /\ ~OnBoard(Plus(c, m.dir))})

\* a push of two marbles by three, with marbles beside the line
C33_Witness ==
    /\ call.op = "apply_move"
    /\ Len(call.result.marbles) = 3
    /\ Len(call.result.push_opponent) = 2
    /\ DOMAIN call.before.grid \ SeqSet(Movers(call.result)) # {}

\* a broadside move of three marbles
C33_WitnessBroadside ==
    /\ call.op = "apply_move"
    /\ call.result.type = "broadside"
    /\ Len(call.result.marbles) = 3
    /\ DOMAIN call.before.grid \ SeqSet(Movers(call.result)) # {}

\* C34: minimax_ab stores no transposition entry whose score comes from a
\* subtree cut short by the time budget: no entry holds the -infinity or
\* +infinity a node starts from, which no search that ran to its end returns
C34_NoAbortedValuesCached ==
    \A key \in DOMAIN ai.transposition_table :
        /\ ai.transposition_table[key].score # NegInf
        /\ ai.transposition_table[key].score # PosInf

\* C35: every move get_all_legal_moves(board, c) returns has 1 to 3 moving
\* marbles, each on a cell held by colour c; its pushed marbles are of the
\* other colour and fewer than the moving marbles; a broadside move pushes
\* nothing; its direction is one of the six unit directions
C35_GeneratedMovesWellFormed ==
    call.op = "get_all_legal_moves" =>
        \A i \in 1..Len(call.moves) :
            LET m == call.moves[i]
                g == call.before.grid
            IN  /\ Len(m.marbles) \in 1..3
                /\ Cardinality(SeqSet(m.marbles)) = Len(m.marbles)
                /\ \A c \in SeqSet(m.marbles) : c \in DOMAIN g /\ g[c] = call.color
                /\ \A c \in SeqSet(m.push_opponent) :
                      c \in DOMAIN g /\ g[c] = Opp(call.color)
                /\ Len(m.push_opponent) < Len(m.marbles)
                /\ m.type = "broadside" => m.push_opponent = <<>>
                /\ \E k \in 1..6 : m.dir = DIRECTIONS[k]

\* a list with a push of two by three, a push of one by two, a broadside move
\* and a move of one marble
C35_Witness ==
    /\ call.op = "get_all_legal_moves"
    /\ \E i \in 1..Len(call.moves) :
          Len(call.moves[i].marbles) = 3 /\ Len(call.moves[i].push_opponent) = 2
    /\ \E j \in 1..Len(call.moves) :
          Len(call.moves[j].marbles) = 2 /\ Len(call.moves[j].push_opponent) = 1
    /\ \E k \in 1..Len(call.moves) : call.moves[k].type = "broadside"
    /\ \E l \in 1..Len(call.moves) : Len(call.moves[l].marbles) = 1

C36_WitnessInvalid ==
    /\ call.op = "validate_move"
    /\ call.result = NoMove
    /\ Len(call.selected) = 3
    /\ call.selected # sorted(call.selected)

\* the click recorded fell on a marble of the colour whose turn it was
OwnClick(c) == c.target \in DOMAIN c.before.grid /\ c.before.grid[c.target] = c.color

\* C37: handle_click returns True exactly when a move validate_move accepted
\* for the selection and the cell clicked was applied to the board; when it
\* returns False the occupancy and both scores are unchanged; after a click
\* on a cell that is not an own marble, with a selection, the selection is
\* empty whether the move was valid or not
C37_ClickOutcome ==
    call.op = "handle_click" =>
        LET b0 == call.before
            m == validate_move(b0.grid, b0.selected, call.target)
            tried == ~OwnClick(call) /\ b0.selected # <<>>
        IN  /\ call.returned = "True" <=> (tried /\ m # NoMove)
            /\ call.returned = "True" =>
                  /\ call.result = m
                  /\ board.grid = apply_move(b0, m).grid
                  /\ board.black_score = apply_move(b0, m).black_score
                  /\ board.white_score = apply_move(b0, m).white_score
                  /\ board.grid # b0.grid
            /\ call.returned = "False" =>
                  /\ board.grid = b0.grid
                  /\ board.black_score = b0.black_score
                  /\ board.white_score = b0.white_score
            /\ tried => board.selected = <<>>

\* a click that pushed an opposing marble with a selection of two
C37_Witness ==
    /\ call.op = "handle_click"
    /\ call.returned = "True"
    /\ Len(call.selected) = 2
    /\ call.result.push_opponent # <<>>
    /\ board.selected = <<>>

\* a click on an opposing marble that was no valid move and emptied a
\* selection of two
C37_WitnessInvalid ==
    /\ call.op = "handle_click"
    /\ call.returned = "False"
    /\ ~OwnClick(call)
    /\ call.target \in DOMAIN call.before.grid
    /\ Len(call.selected) = 2
    /\ board.selected = <<>>

\* C38: the selection holds at most 3 coordinates and none twice; a click on
\* a selected own marble takes it out of the selection and leaves the others
\* in order; a click on a further own marble with 3 selected leaves that
\* marble alone in the selection, and with fewer selected adds it at the end
C38_SelectionBound ==
    /\ Len(board.selected) <= 3
    /\ Cardinality(SeqSet(board.selected)) = Len(board.selected)
    /\ (call.op = "handle_click" /\ OwnClick(call)) =>
          LET before == call.before.selected
              kept(c) == c # call.target
          IN  /\ call.target \in SeqSet(before) =>
                    board.selected = SelectSeq(before, kept)
              /\ (call.target \notin SeqSet(before) /\ Len(before) = 3) =>
                    board.selected = <<call.target>>
              /\ (call.target \notin SeqSet(before) /\ Len(before) < 3) =>
                    board.selected = Append(before, call.target)

\* three marbles were selected and a click on a fourth started a new selection
C38_Witness ==
    /\ call.op = "handle_click"
    /\ OwnClick(call)
    /\ Len(call.selected) = 3
    /\ call.target \notin SeqSet(call.selected)
    /\ board.selected = <<call.target>>

\* a click took the first of three selected marbles out of the selection
C38_WitnessDeselect ==
    /\ call.op = "handle_click"
    /\ OwnClick(call)
    /\ Len(call.selected) = 3
    /\ call.target = call.selected[1]
    /\ Len(board.selected) = 2

\* the value of the search call c on an engine whose table is empty
Uncached(c, a) ==
    minimax_ab(c.before, c.depth, c.alpha, c.beta, c.maximizing_player, NoMove,
               [StOf(a) EXCEPT !.tt = <<>>], CfgOf(a, NoDeadline)).score

\* C39: after set_config has changed the engine's colour, no entry stored
\* under the colour before influences a result: a search returns what it
\* returns on an engine without those entries
C39_NoCrossConfigEntries ==
    (/\ call.op = "minimax_ab"
     /\ call.nth = 2
     /\ call.stored_by # call.color)
    => call.ab_score = Uncached(call, ai)

====
